---- MODULE Spec2Model ----
(***************************************************************************)
(* Resolution pipeline of the log error resolver: ingestion of log        *)
(* entries into the primary store and the vector index, similarity         *)
(* retrieval, generation of a resolution from a completion, and the        *)
(* persistence of the ResolutionHistory row.                               *)
(***************************************************************************)
EXTENDS Integers, Sequences, FiniteSets, TLC

VARIABLES
    logEntries,     \* primary store: committed LogEntry rows
    vectorIndex,    \* the ChromaDB collection: set of stored embeddings
    history,        \* primary store: committed ResolutionHistory rows
    nDirect,        \* number of direct VectorStore.add_embedding calls so far
    pc,             \* position of the request being served
    call,           \* entry point and arguments of the request being served
    retrieval,      \* what Retriever.retrieve_similar_logs returned or raised
    similar_logs,   \* formatted (and truncated) similar logs of the request
    llm_response,   \* what the completion call produced
    resolution,     \* value returned by RAGEngine.generate_resolution
    trace,          \* calls made to the collaborators by the request, in order
    outcome,        \* what the Resolver call returned or raised
    response,       \* what the /resolve route answered
    fn,             \* pure-function check: which function was applied
    args,           \* pure-function check: its arguments
    ret,            \* pure-function check: its result
    globals,        \* module-level _resolver, _retriever, _rag_engine and
                    \* _vector_store, by getter: 0 for None, else the instance
    built,          \* by getter: number of instances constructed so far
    tasks           \* request coroutines on the event loop

dbVars   == <<logEntries, vectorIndex, history, nDirect>>
reqVars  == <<pc, call, retrieval, similar_logs, llm_response,
              resolution, trace, outcome, response>>
pureVars == <<fn, args, ret>>
procVars == <<globals, built, tasks>>
vars     == <<dbVars, reqVars, pureVars, procVars>>

----------------------------------------------------------------------------
(* Bounds of the exploration *)

MaxLogs     == 2    \* LogEntry rows ingested
MaxDirect   == 1    \* direct VectorStore.add_embedding calls
MaxHistory  == 1    \* ResolutionHistory rows stored
MaxTopK     == 2    \* largest top_k a caller asks for

----------------------------------------------------------------------------
(* Python values *)

\* Optional[T]: None is the empty tuple, a present value a 1-tuple.
None == << >>
Some(x) == <<x>>
IsNone(o) == o = << >>
Val(o) == o[1]

\* str(n) of an int
Str(n) == ToString(n)

\* truthiness of an Optional[str] (None and "" are falsy)
TruthyStr(o) == o # None /\ Val(o) # ""

\* truthiness of an Optional[int] (None and 0 are falsy)
TruthyInt(o) == o # None /\ Val(o) # 0

Min(a, b) == IF a < b THEN a ELSE b

----------------------------------------------------------------------------
(* Text.  A text is a sequence of lexical tokens; every token stands for a  *)
(* substring of one lexical class, and the regular expressions of           *)
(* text_cleaner.py are matched token by token.                              *)
(*   DATE  2024-01-15        TIME  10:30:00      EPOCH 1700000000.5         *)
(*   IP    10.0.0.1          HEX   16 hex digits UUID  8-4-4-4-12 hex       *)
(*   T, W  upper-case letters t, w  lower-case letters (not hex digits)     *)
(*   SP    one space         TAB   one tab       NL    one line break       *)
(*   BRK   [api]             <uuid> <ip> <hex_id> <timestamp>  literally    *)

Placeholders == {"<uuid>", "<ip>", "<hex_id>", "<timestamp>"}
Whitespace   == {"SP", "TAB", "NL"}
\* tokens whose first and last characters are word characters (\w)
WordEdge     == {"DATE", "TIME", "EPOCH", "IP", "HEX", "UUID", "T", "t", "W", "w"}
\* tokens whose first and last characters are digits or hex digits
DigitEdge    == {"DATE", "TIME", "EPOCH", "IP", "HEX", "UUID"}
Tokens       == WordEdge \cup Whitespace \cup Placeholders \cup {"BRK"}

\* len() of the substring a token stands for
TokLen(tok) ==
    CASE tok = "DATE"  -> 10
      [] tok = "TIME"  -> 8
      [] tok = "EPOCH" -> 12
      [] tok = "IP"    -> 8
      [] tok = "HEX"   -> 17
      [] tok = "UUID"  -> 36
      [] tok \in {"W", "w"} -> 3
      [] tok = "BRK"   -> 5
      [] tok = "<uuid>" -> 6
      [] tok = "<ip>"  -> 4
      [] tok = "<hex_id>" -> 8
      [] tok = "<timestamp>" -> 11
      [] tok = "..."   -> 3
      [] OTHER         -> 1

RECURSIVE TextLen(_)
TextLen(text) == IF text = << >> THEN 0 ELSE TokLen(text[1]) + TextLen(Tail(text))

\* Texts in which no two digit-edged tokens touch, so that no match of a
\* pattern spans a token boundary other than the ones modelled.
WellFormed(text) ==
    \A i \in 1..(Len(text) - 1) :
        ~(text[i] \in DigitEdge /\ text[i + 1] \in DigitEdge)

\* str.lower()
Lower(text) ==
    [i \in 1..Len(text) |->
        IF text[i] = "T" THEN "t" ELSE IF text[i] = "W" THEN "w" ELSE text[i]]

\* \b on both sides of the token at position i
Boundary(text, i) ==
    /\ (i = 1 \/ text[i - 1] \notin WordEdge)
    /\ (i = Len(text) \/ text[i + 1] \notin WordEdge)

\* re.sub of a pattern that matches one token, with or without \b...\b
SubToken(text, tok, repl, bounded) ==
    [i \in 1..Len(text) |->
        IF text[i] = tok /\ (bounded => Boundary(text, i)) THEN repl ELSE text[i]]

\* re.sub(iso_timestamp, "<timestamp>"): DATE, then "T" or one space, then TIME
RECURSIVE SubIso(_)
SubIso(text) ==
    IF text = << >> THEN << >>
    ELSE IF /\ Len(text) >= 3
            /\ text[1] = "DATE"
            /\ text[2] \in {"T", "SP"}
            /\ text[3] = "TIME"
         THEN <<"<timestamp>">> \o SubIso(SubSeq(text, 4, Len(text)))
         ELSE <<text[1]>> \o SubIso(Tail(text))

\* re.sub(r"\s+", " ")
RECURSIVE CollapseWhitespace(_)
CollapseWhitespace(text) ==
    IF text = << >> THEN << >>
    ELSE IF text[1] \in Whitespace
         THEN IF Len(text) >= 2 /\ text[2] \in Whitespace
              THEN CollapseWhitespace(Tail(text))
              ELSE <<"SP">> \o CollapseWhitespace(Tail(text))
         ELSE <<text[1]>> \o CollapseWhitespace(Tail(text))

\* str.strip()
RECURSIVE StripLeft(_)
StripLeft(text) ==
    IF text # << >> /\ text[1] \in Whitespace THEN StripLeft(Tail(text)) ELSE text

RECURSIVE StripRight(_)
StripRight(text) ==
    IF text # << >> /\ text[Len(text)] \in Whitespace
    THEN StripRight(SubSeq(text, 1, Len(text) - 1))
    ELSE text

Strip(text) == StripRight(StripLeft(text))

\* text_cleaner.normalize_text
normalize_text(text) ==
    IF text = << >> THEN << >>
    ELSE LET lowered == Lower(text)
             uuid    == SubToken(lowered, "UUID", "<uuid>", FALSE)
             ip      == SubToken(uuid, "IP", "<ip>", TRUE)
             hex     == SubToken(ip, "HEX", "<hex_id>", TRUE)
             iso     == SubIso(hex)
             unix    == SubToken(iso, "EPOCH", "<timestamp>", TRUE)
         IN  Strip(CollapseWhitespace(unix))


----------------------------------------------------------------------------
(* Python floats: finite values are counted in tenths (14 is 1.4), and the  *)
(* three special values json.loads and float() can produce are kept apart.  *)

Fin(n)  == [k |-> "fin", v |-> n]
NaN     == [k |-> "nan", v |-> 0]
PosInf  == [k |-> "inf", v |-> 0]
NegInf  == [k |-> "-inf", v |-> 0]

\* a < b on floats: every comparison with nan is False
FLt(a, b) ==
    IF a.k = "nan" \/ b.k = "nan" THEN FALSE
    ELSE IF a.k = "-inf" THEN b.k # "-inf"
    ELSE IF a.k = "inf" THEN FALSE
    ELSE IF b.k = "inf" THEN TRUE
    ELSE IF b.k = "-inf" THEN FALSE
    ELSE a.v < b.v

\* the builtins min(a, b) and max(a, b): keep the first argument unless the
\* second is strictly smaller (larger)
PyMin(a, b) == IF FLt(b, a) THEN b ELSE a
PyMax(a, b) == IF FLt(a, b) THEN b ELSE a

\* a is a number within the closed interval [0.0, 1.0]
InUnitInterval(a) == a.k = "fin" /\ 0 <= a.v /\ a.v <= 10

----------------------------------------------------------------------------
(* Python values as they come out of json.loads or of the heuristic parser. *)
(* A str is the sequence of its pieces (the empty sequence is ""); a dict   *)
(* is a function from its keys.                                             *)

PyNone      == [t |-> "none",  v |-> 0]
PyStr(s)    == [t |-> "str",   v |-> s]
PyNum(f)    == [t |-> "float", v |-> f]
PyBool(b)   == [t |-> "bool",  v |-> b]
PyList(l)   == [t |-> "list",  v |-> l]
PyDict(d)   == [t |-> "dict",  v |-> d]

\* dict.get(key, default)
Get(d, key, default) == IF key \in DOMAIN d THEN d[key] ELSE default

\* float(s) of a str: the value, or None for ValueError
ParseFloat(s) ==
    CASE s = <<"0.0">>  -> Some(Fin(0))
      [] s = <<"0.3">>  -> Some(Fin(3))
      [] s = <<"0.9">>  -> Some(Fin(9))
      [] s = <<"1.0">>  -> Some(Fin(10))
      [] s = <<"1.4">>  -> Some(Fin(14))
      [] s = <<"85">>   -> Some(Fin(850))
      [] s = <<"-0.2">> -> Some(Fin(-2))
      [] s = <<"nan">>  -> Some(NaN)
      [] s = <<"inf">>  -> Some(PosInf)
      [] s = <<"-inf">> -> Some(NegInf)
      [] OTHER          -> None

\* float(x): [ok |-> TRUE, f |-> the float], or ok = FALSE when float()
\* raises ValueError (a str that is no number) or TypeError (None, list, dict)
PyFloat(x) ==
    CASE x.t = "float" -> [ok |-> TRUE, f |-> x.v]
      [] x.t = "bool"  -> [ok |-> TRUE, f |-> IF x.v THEN Fin(10) ELSE Fin(0)]
      [] x.t = "str"   -> IF ParseFloat(x.v) = None
                          THEN [ok |-> FALSE, f |-> NaN]
                          ELSE [ok |-> TRUE, f |-> Val(ParseFloat(x.v))]
      [] OTHER         -> [ok |-> FALSE, f |-> NaN]

\* variant that leaves the clamp out
ClampConfidence_unclamped(c) == c

\* rag_engine.py: confidence = max(0.0, min(1.0, confidence))
ClampConfidence(c) == PyMax(Fin(0), PyMin(Fin(10), c))


----------------------------------------------------------------------------
(* The completion.  The content of a completion is a sequence of chunks: a  *)
(* code fence tagged json, a bare code fence, a JSON document, or a line of *)
(* prose.  A line carries what the heuristic parser looks at:               *)
(*   kw      the keywords its lower-cased text contains                     *)
(*   colon   whether it contains a colon                                    *)
(*   after1  line.split(":", 1)[-1].strip()                                 *)
(*   afterN  line.split(":")[-1].strip()                                    *)
(*   body    line.strip()                                                   *)
(*   n       len(line)                                                      *)

FenceJson  == [c |-> "fence_json", v |-> 0]
Fence      == [c |-> "fence", v |-> 0]
Json(val)  == [c |-> "json", v |-> val]
CutJson(val) == [c |-> "json[:-1]", v |-> val]
Text(line) == [c |-> "line", v |-> line]

Line(kw, colon, after1, afterN, body, n) ==
    [kw |-> kw, colon |-> colon, after1 |-> after1, afterN |-> afterN,
     body |-> body, n |-> n]

\* s[:-1] of a str of two or more characters, kept symbolic
CutLast(s) == IF s = << >> THEN << >> ELSE Append(s, "[:-1]")

\* repr of a float as it stands in a JSON text
FloatRepr(f) ==
    CASE f = Fin(0)   -> <<"0.0">>
      [] f = Fin(3)   -> <<"0.3">>
      [] f = Fin(9)   -> <<"0.9">>
      [] f = Fin(10)  -> <<"1.0">>
      [] f = Fin(14)  -> <<"1.4">>
      [] f = Fin(850) -> <<"85">>
      [] f = Fin(-2)  -> <<"-0.2">>
      [] f = NaN      -> <<"nan">>
      [] f = PosInf   -> <<"inf">>
      [] f = NegInf   -> <<"-inf">>
      [] OTHER        -> <<"number">>

\* The one-line text of a JSON document as the line scan sees it.  The keys
\* stand in the order root_cause, recommended_fix, confidence; the sample
\* values contain none of the keywords and no colon.
JsonLine(val, cut) ==
    IF val.t # "dict"
    THEN Line({}, FALSE, << >>, <<"json text">>, <<"json text">>, 20)
    ELSE LET d    == val.v
             keys == DOMAIN d
             last == IF "confidence" \in keys /\ d["confidence"].t = "float"
                     THEN FloatRepr(d["confidence"].v)
                     ELSE <<"json value">>
             tail == IF cut THEN last ELSE Append(last, "}")
         IN  Line(({"fix"} \cap {IF "recommended_fix" \in keys THEN "fix" ELSE "-"})
                    \cup ({"confidence"} \cap keys),
                  keys # {},
                  IF keys = {} THEN << >> ELSE <<"json text after first colon">>,
                  IF keys = {} THEN <<"json text">> ELSE tail,
                  <<"json text">>,
                  60)

\* content[json_start:json_end] when find() returned -1: the last character
\* of the last chunk is lost
DropLastChar(chunks) ==
    IF chunks = << >> THEN << >>
    ELSE LET n  == Len(chunks)
             ch == chunks[n]
         IN  [chunks EXCEPT ![n] =
                CASE ch.c = "json" -> CutJson(ch.v)
                  [] ch.c = "line" ->
                        Text([ch.v EXCEPT !.after1 = CutLast(@),
                                          !.afterN = CutLast(@),
                                          !.body = CutLast(@),
                                          !.n = IF @ > 0 THEN @ - 1 ELSE 0])
                  [] OTHER -> ch]

\* str.find over chunks: least index >= from of a chunk of one of the kinds,
\* 0 when there is none
FindChunk(chunks, kinds, from) ==
    LET hits == {i \in from..Len(chunks) : chunks[i].c \in kinds}
    IN  IF hits = {} THEN 0 ELSE CHOOSE i \in hits : \A j \in hits : i <= j

\* rag_engine.py lines 131-138: the interior of the first fenced block
ExtractFenced(content) ==
    LET start == IF FindChunk(content, {"fence_json"}, 1) # 0
                 THEN FindChunk(content, {"fence_json"}, 1)
                 ELSE FindChunk(content, {"fence"}, 1)
        end   == FindChunk(content, {"fence_json", "fence"}, start + 1)
    IN  IF start = 0 THEN content
        ELSE IF end = 0
             THEN DropLastChar(SubSeq(content, start + 1, Len(content)))
             ELSE SubSeq(content, start + 1, end - 1)

\* json.loads: the document, or None for JSONDecodeError
JsonLoads(chunks) ==
    IF Len(chunks) = 1 /\ chunks[1].c = "json" THEN Some(chunks[1].v) ELSE None

\* content.split("\n") of the text handed to the heuristic parser
ContentLines(chunks) ==
    [i \in 1..Len(chunks) |->
        CASE chunks[i].c = "line"      -> chunks[i].v
          [] chunks[i].c = "json"      -> JsonLine(chunks[i].v, FALSE)
          [] chunks[i].c = "json[:-1]" -> JsonLine(chunks[i].v, TRUE)
          [] OTHER -> Line({}, FALSE, << >>, <<chunks[i].c>>, <<chunks[i].c>>, 3)]


----------------------------------------------------------------------------
(* RAGEngine._parse_unstructured_response *)

\* the text of the lines joined by line breaks
RECURSIVE JoinLines(_)
JoinLines(lines) ==
    IF lines = << >> THEN << >>
    ELSE IF Len(lines) = 1 THEN lines[1].body
    ELSE lines[1].body \o <<"NL">> \o JoinLines(Tail(lines))

\* len(content)
RECURSIVE ContentLen(_)
ContentLen(lines) ==
    IF lines = << >> THEN 0
    ELSE IF Len(lines) = 1 THEN lines[1].n
    ELSE lines[1].n + 1 + ContentLen(Tail(lines))

\* the characters of the content: the non-empty lines and the line breaks
\* between the lines
RECURSIVE CharStream(_)
CharStream(lines) ==
    IF lines = << >> THEN << >>
    ELSE (IF lines[1].n = 0 THEN << >> ELSE <<[nl |-> FALSE, line |-> lines[1]]>>)
         \o (IF Len(lines) = 1 THEN << >>
             ELSE <<[nl |-> TRUE, line |-> lines[1]]>> \o CharStream(Tail(lines)))

\* variant that never splits
SplitBlank_whole(stream, cur) == <<stream>>

\* str.split("\n\n") over the character stream; cur is the part being read
RECURSIVE SplitBlank(_, _)
SplitBlank(stream, cur) ==
    IF stream = << >> THEN <<cur>>
    ELSE IF Len(stream) >= 2 /\ stream[1].nl /\ stream[2].nl
         THEN <<cur>> \o SplitBlank(SubSeq(stream, 3, Len(stream)), << >>)
         ELSE SplitBlank(Tail(stream), Append(cur, stream[1]))

\* part.strip() as a str
RECURSIVE PartText(_)
PartText(part) ==
    IF part = << >> THEN << >>
    ELSE (IF part[1].nl THEN <<"NL">> ELSE part[1].line.body) \o PartText(Tail(part))

RECURSIVE StripNL(_)
StripNL(s) ==
    IF s # << >> /\ s[1] = "NL" THEN StripNL(Tail(s))
    ELSE IF s # << >> /\ s[Len(s)] = "NL" THEN StripNL(SubSeq(s, 1, Len(s) - 1))
    ELSE s

\* content[lo:hi]
Slice(lines, lo, hi) ==
    IF ContentLen(lines) <= lo THEN << >>
    ELSE IF lo = 0 /\ ContentLen(lines) <= hi THEN JoinLines(lines)
    ELSE <<"content", Str(lo), Str(hi)>>

\* variant in which a line outside of any section opens root_cause
ScanLine_opens(st, line) ==
    IF line.kw = {} /\ st.section = "none" /\ line.body # << >>
    THEN [st EXCEPT !.section = "root_cause", !.root_cause = line.body]
    ELSE st

\* one iteration of the loop over the lines (rag_engine.py lines 186-201)
ScanLine(st, line) ==
    IF "root cause" \in line.kw
    THEN [st EXCEPT !.section = "root_cause",
                    !.root_cause = IF line.colon THEN line.after1 ELSE << >>]
    ELSE IF line.kw \cap {"fix", "solution"} # {}
    THEN [st EXCEPT !.section = "recommended_fix",
                    !.recommended_fix = IF line.colon THEN line.after1 ELSE << >>]
    ELSE IF "confidence" \in line.kw
    THEN IF ParseFloat(line.afterN) # None
         THEN [st EXCEPT !.confidence = Val(ParseFloat(line.afterN))]
         ELSE st
    ELSE IF st.section # "none" /\ line.body # << >>
    THEN [st EXCEPT ![st.section] = @ \o <<" ">> \o line.body]
    ELSE st

RECURSIVE ScanLines(_, _)
ScanLines(st, lines) ==
    IF lines = << >> THEN st ELSE ScanLines(ScanLine(st, lines[1]), Tail(lines))

\* the dict returned by _parse_unstructured_response
_parse_unstructured_response(chunks) ==
    LET lines == ContentLines(chunks)
        st    == ScanLines([section |-> "none", root_cause |-> << >>,
                            recommended_fix |-> << >>, confidence |-> Fin(5)],
                           lines)
        parts == SplitBlank(CharStream(lines), << >>)
        fallback == st.root_cause = << >> /\ st.recommended_fix = << >>
        rc  == IF ~fallback THEN st.root_cause
               ELSE IF Len(parts) >= 2 THEN StripNL(PartText(parts[1]))
               ELSE Slice(lines, 0, 200)
        fix == IF ~fallback THEN st.recommended_fix
               ELSE IF Len(parts) >= 2 THEN StripNL(PartText(parts[2]))
               ELSE IF ContentLen(lines) > 200 THEN Slice(lines, 200, 400)
               ELSE << >>
    IN  [root_cause |-> PyStr(rc), recommended_fix |-> PyStr(fix),
         confidence |-> PyNum(st.confidence)]


----------------------------------------------------------------------------
(* RAGEngine.generate_resolution, from the return of the completion call on *)

DefaultRootCause == PyStr(<<"Unable to determine root cause">>)
DefaultFix       == PyStr(<<"No specific fix recommended">>)
DefaultConfidence == PyNum(Fin(5))

\* the completion call raised (API error, timeout)
CompletionRaised == [kind |-> "raise", content |-> << >>]
\* response.choices is empty
NoChoices        == [kind |-> "no_choices", content |-> << >>]
\* response.choices[0].message.content is None or ""
NoContent        == [kind |-> "no_content", content |-> << >>]
\* a content that is not empty; chunks is content.strip(), so that
\* Completion(<< >>) is a content of white space only
Completion(chunks) == [kind |-> "content", content |-> chunks]

Raised(exc)  == [ok |-> FALSE, exc |-> exc,
                 val |-> [root_cause |-> PyNone, recommended_fix |-> PyNone,
                          confidence |-> NaN]]
Returned(v)  == [ok |-> TRUE, exc |-> "", val |-> v]

\* rag_engine.py lines 128-142: the parsed result
ParseCompletion(content) ==
    LET candidate == ExtractFenced(content)
        loaded    == JsonLoads(candidate)
    IN  IF loaded # None THEN Val(loaded)
        ELSE PyDict(_parse_unstructured_response(candidate))

\* rag_engine.py lines 145-158: validate and normalize the parsed result
NormalizeResult(result) ==
    IF result.t # "dict" THEN Raised("RAGError")    \* AttributeError, wrapped
    ELSE LET conf == PyFloat(Get(result.v, "confidence", DefaultConfidence))
         IN  IF ~conf.ok THEN Raised("RAGError")    \* ValueError, TypeError, wrapped
             ELSE Returned([root_cause |-> Get(result.v, "root_cause", DefaultRootCause),
                            recommended_fix |-> Get(result.v, "recommended_fix", DefaultFix),
                            confidence |-> ClampConfidence(conf.f)])

generate_resolution(completion) ==
    IF completion.kind # "content" THEN Raised("RAGError")
    ELSE NormalizeResult(ParseCompletion(completion.content))

----------------------------------------------------------------------------
(* Resolver._normalize_recommended_fix *)

\* bool(x)
Truthy(x) ==
    CASE x.t = "none"  -> FALSE
      [] x.t = "str"   -> x.v # << >>
      [] x.t = "list"  -> x.v # << >>
      [] x.t = "float" -> x.v # Fin(0)
      [] x.t = "bool"  -> x.v
      [] x.t = "dict"  -> DOMAIN x.v # {}
      [] OTHER         -> TRUE

\* str(x)
StrOf(x) ==
    CASE x.t = "str"   -> x.v
      [] x.t = "none"  -> <<"None">>
      [] x.t = "float" -> FloatRepr(x.v)
      [] x.t = "bool"  -> IF x.v THEN <<"True">> ELSE <<"False">>
      [] OTHER         -> <<"repr">>

\* s.strip(chars) on the pieces of a str
RECURSIVE StripChars(_, _)
StripChars(s, chars) ==
    IF s # << >> /\ s[1] \in chars THEN StripChars(Tail(s), chars)
    ELSE IF s # << >> /\ s[Len(s)] \in chars
    THEN StripChars(SubSeq(s, 1, Len(s) - 1), chars)
    ELSE s

SpaceChars  == {" ", "TAB", "NL"}
\* the characters of the literal in line.strip(...) at resolver.py line 52:
\* space, dash, U+00E2, U+20AC, U+00A2 and tab.  The bullet U+2022 ("BULLET"
\* in the strings of this module) is not among them.
BulletChars == {" ", "-", "U+00E2", "U+20AC", "U+00A2", "TAB"}

\* s.splitlines(); cur is the line being read
RECURSIVE SplitLines(_, _)
SplitLines(s, cur) ==
    IF s = << >> THEN (IF cur = << >> THEN << >> ELSE <<cur>>)
    ELSE IF s[1] = "NL" THEN <<cur>> \o SplitLines(Tail(s), << >>)
    ELSE SplitLines(Tail(s), Append(cur, s[1]))

\* [f(x) for x in seq if x passes]
RECURSIVE StrippedItems(_)
StrippedItems(items) ==
    IF items = << >> THEN << >>
    ELSE (IF StripChars(StrOf(items[1]), SpaceChars) # << >>
          THEN <<StripChars(StrOf(items[1]), SpaceChars)>> ELSE << >>)
         \o StrippedItems(Tail(items))

RECURSIVE StrippedLines(_)
StrippedLines(lines) ==
    IF lines = << >> THEN << >>
    ELSE (IF StripChars(lines[1], SpaceChars) # << >>
          THEN <<StripChars(lines[1], BulletChars)>> ELSE << >>)
         \o StrippedLines(Tail(lines))

_normalize_recommended_fix(recommended_fix) ==
    IF ~Truthy(recommended_fix) THEN << >>
    ELSE IF recommended_fix.t = "list" THEN StrippedItems(recommended_fix.v)
    ELSE IF recommended_fix.t = "str"
    THEN LET lines == StrippedLines(SplitLines(recommended_fix.v, << >>))
         IN  IF lines # << >> THEN lines
             ELSE <<StripChars(recommended_fix.v, SpaceChars)>>
    ELSE <<StrOf(recommended_fix)>>


----------------------------------------------------------------------------
(* text_cleaner.extract_error_level.  The text is a sequence of words       *)
(* separated by single spaces; no keyword spans two words.                  *)

LevelWords == {"critical", "FATAL", "Panic", "error", "stderr", "Warning",
               "warn", "debug", "INFO", "disk"}

\* str.upper() of a word
UpperWord(word) ==
    CASE word = "critical" -> "CRITICAL"
      [] word = "Panic"    -> "PANIC"
      [] word = "error"    -> "ERROR"
      [] word = "stderr"   -> "STDERR"
      [] word = "Warning"  -> "WARNING"
      [] word = "warn"     -> "WARN"
      [] word = "debug"    -> "DEBUG"
      [] word = "disk"     -> "DISK"
      [] OTHER             -> word

\* keyword in text_upper: the keywords that are substrings of an upper-cased
\* word
KeywordsIn(upper) ==
    CASE upper = "CRITICAL" -> {"CRITICAL"}
      [] upper = "FATAL"    -> {"FATAL"}
      [] upper = "PANIC"    -> {"PANIC"}
      [] upper = "ERROR"    -> {"ERROR", "ERR"}
      [] upper = "STDERR"   -> {"ERR"}
      [] upper = "WARNING"  -> {"WARN", "WARNING"}
      [] upper = "WARN"     -> {"WARN"}
      [] upper = "DEBUG"    -> {"DEBUG"}
      [] upper = "INFO"     -> {"INFO"}
      [] OTHER              -> {}

\* variant that tests ERROR before CRITICAL
extract_error_level_error_first(text) ==
    LET has(kws) == \E i \in 1..Len(text) : KeywordsIn(UpperWord(text[i])) \cap kws # {}
    IN  IF has({"ERROR", "ERR"}) THEN "ERROR"
        ELSE IF has({"CRITICAL", "FATAL", "PANIC"}) THEN "CRITICAL"
        ELSE IF has({"WARN", "WARNING"}) THEN "WARN"
        ELSE IF has({"DEBUG"}) THEN "DEBUG"
        ELSE "INFO"

\* text_cleaner.extract_error_level
extract_error_level(text) ==
    LET text_upper == [i \in 1..Len(text) |-> UpperWord(text[i])]
        has(kws) == \E i \in 1..Len(text_upper) : KeywordsIn(text_upper[i]) \cap kws # {}
    IN  IF has({"CRITICAL", "FATAL", "PANIC"}) THEN "CRITICAL"
        ELSE IF has({"ERROR"}) \/ has({"ERR"}) THEN "ERROR"
        ELSE IF has({"WARN", "WARNING"}) THEN "WARN"
        ELSE IF has({"DEBUG"}) THEN "DEBUG"
        ELSE IF has({"INFO"}) THEN "INFO"
        ELSE "INFO"

----------------------------------------------------------------------------
(* text_cleaner.extract_error_message *)

\* number of leading tokens of text that are in the set toks
RECURSIVE Run(_, _)
Run(text, toks) ==
    IF text # << >> /\ text[1] \in toks THEN 1 + Run(Tail(text), toks) ELSE 0

\* number of tokens the prefix pattern matches at the head of text, 0 if it
\* does not match:
\*   date     \d{4}-\d{2}-\d{2}[^\s]*\s+
\*   bracket  \[[^\]]+\]\s+
\*   upper    [A-Z]+\s+
PrefixMatch(text, kind) ==
    LET head == CASE kind = "date" ->
                       IF text[1] = "DATE"
                       THEN 1 + Run(Tail(text), Tokens \ Whitespace) ELSE 0
                  [] kind = "bracket" -> IF text[1] = "BRK" THEN 1 ELSE 0
                  [] OTHER -> Run(text, {"W", "T"})
        space == Run(SubSeq(text, head + 1, Len(text)), Whitespace)
    IN  IF head > 0 /\ space > 0 THEN head + space ELSE 0

\* re.sub("^" + pattern, "", text, flags=re.MULTILINE)
RECURSIVE SubPrefix(_, _, _)
SubPrefix(text, kind, atLineStart) ==
    IF text = << >> THEN << >>
    ELSE LET m == IF atLineStart THEN PrefixMatch(text, kind) ELSE 0
         IN  IF m > 0
             THEN SubPrefix(SubSeq(text, m + 1, Len(text)), kind, text[m] = "NL")
             ELSE <<text[1]>> \o SubPrefix(Tail(text), kind, text[1] = "NL")

\* text.split("\n")[0]
RECURSIVE FirstLine(_)
FirstLine(text) ==
    IF text = << >> \/ text[1] = "NL" THEN << >>
    ELSE <<text[1]>> \o FirstLine(Tail(text))

\* text[:max_length]: whole tokens while they fit, then the cut token
RECURSIVE Truncate(_, _)
Truncate(text, max_length) ==
    IF text = << >> \/ max_length <= 0 THEN << >>
    ELSE IF TokLen(text[1]) <= max_length
    THEN <<text[1]>> \o Truncate(Tail(text), max_length - TokLen(text[1]))
    ELSE <<"PART">>

extract_error_message(text, max_length) ==
    LET cleaned == SubPrefix(SubPrefix(SubPrefix(text, "date", TRUE),
                                       "bracket", TRUE), "upper", TRUE)
        message == Strip(FirstLine(Strip(cleaned)))
    IN  IF TextLen(message) > max_length
        THEN Truncate(message, max_length) \o <<"...">>
        ELSE message

\* LogParser.parse_log_text (parse_unstructured_log): the fields the
\* resolution uses
parse_log_text(log_text) ==
    LET error_message == extract_error_message(log_text, 500)
    IN  [error_message |-> error_message,
         normalized_text |-> normalize_text(error_message)]


----------------------------------------------------------------------------
(* Retrieval *)

\* the sequences of n distinct elements of S
Arrangements(S, n) ==
    {q \in [1..n -> S] : \A i, j \in 1..n : i # j => q[i] # q[j]}

\* VectorStore.query_similar: the top_k nearest embeddings, nearest first.
\* The embeddings are not modelled, so every ranking is possible.
query_similar(index, top_k) ==
    Arrangements(index, Min(top_k, Cardinality(index)))

\* retriever.py line 107: "id": log_id or result.get("id")
ResolvedId(hit) == IF TruthyStr(hit.log_id) THEN Val(hit.log_id) ELSE hit.id

\* Retriever.format_retrieval_results
RECURSIVE format_retrieval_results(_, _)
format_retrieval_results(results, exclude_id) ==
    IF results = << >> THEN << >>
    ELSE LET log_id == results[1].log_id
         IN  (IF /\ TruthyInt(exclude_id)
                 /\ TruthyStr(log_id)
                 /\ Val(log_id) = Str(Val(exclude_id))
              THEN << >>
              ELSE <<[id |-> ResolvedId(results[1])]>>)
             \o format_retrieval_results(Tail(results), exclude_id)

\* variant that does not truncate
Take_all(seq, n) == seq

\* seq[:n]
Take(seq, n) == SubSeq(seq, 1, Min(n, Len(seq)))

\* settings.top_k_similar_logs
top_k_similar_logs == 5

\* EmbeddingService.generate_embedding rejects the empty text
EmbeddingRejects(text) == text = << >>


\* variant that lets the exception through
retriever_except_reraise(inner) == inner

\* retriever.py lines 58-60: what the except clause of
\* retrieve_similar_logs raises for an exception raised inside it
retriever_except(inner) == "RetrievalError"

\* Retriever.retrieve_similar_logs: the outcomes it can have.  Embedding
\* generation and the index query can fail for reasons outside the program
\* (model not loaded, index unavailable).  calls lists the collaborators it
\* called, inner the exception raised inside it.
retrieve_similar_logs(index, log_text, top_k) ==
    LET k == IF top_k = 0 THEN top_k_similar_logs ELSE top_k
        failed(calls, inner) ==
            [status |-> "raised", exc |-> retriever_except(inner),
             inner |-> inner, results |-> << >>, calls |-> calls]
    IN  {failed(<<"generate_embedding">>, "EmbeddingError")}
        \cup (IF EmbeddingRejects(log_text) THEN {}
              ELSE {failed(<<"generate_embedding", "query_similar">>, "VectorStoreError")}
                   \cup {[status |-> "returned", exc |-> "", inner |-> "",
                          results |-> r,
                          calls |-> <<"generate_embedding", "query_similar">>] :
                            r \in query_similar(index, k)})

----------------------------------------------------------------------------
(* The stores *)

\* the committed LogEntry row with this id
Entry(id) == CHOOSE e \in logEntries : e.id = id
LogIdsStored == {e.id : e \in logEntries}

\* int(s) of an id string: the int, or None for ValueError
IntOf(s) ==
    LET ns == {n \in 0..(MaxLogs + 1) : Str(n) = s}
    IN  IF ns = {} THEN None ELSE Some(CHOOSE n \in ns : TRUE)

\* error messages of the ingested logs
IngestMessages == {<<"w">>}

\* log_text arguments of ad-hoc resolutions: a log line, the empty text, and
\* None
ResolveTexts == {Some(<<"W", "SP", "w">>), Some(<< >>), None}

\* ids and metadata of embeddings added directly through VectorStore
DirectIds    == {Str(i) : i \in 1..MaxLogs} \cup {"e"}
DirectLogIds == {None}

----------------------------------------------------------------------------
(* The record of the operation being served *)

NoRetrieval == [status |-> "none", exc |-> "", inner |-> "", results |-> << >>,
                calls |-> << >>]
NoOutcome   == [status |-> "none", exc |-> "", result |-> None]
NoResponse  == [status |-> 0, detail |-> "", body |-> None]

Call(via, mode, log_id, log_text, top_k, db) ==
    [via |-> via, mode |-> mode, log_id |-> log_id, log_text |-> log_text,
     top_k |-> top_k, db |-> db]

NoCall == Call("", "none", 0, None, 0, FALSE)

\* the record is the one of the latest request: any later operation clears it
ForgetRequest ==
    /\ pc' = "idle"
    /\ call' = NoCall
    /\ retrieval' = NoRetrieval
    /\ similar_logs' = << >>
    /\ llm_response' = None
    /\ resolution' = None
    /\ trace' = << >>
    /\ outcome' = NoOutcome
    /\ response' = NoResponse

----------------------------------------------------------------------------
(* Ingestion *)

\* variant that sets embedding_id before the embedding is added
attached_embedding_id_early(failure, embedding_id) ==
    IF failure \in {"none", "add_embedding"} THEN Some(embedding_id) ELSE None

\* resolver.py lines 232-234: the embedding_id the committed row carries.
\* The assignment follows add_embedding and is committed by the second
\* commit; a failure before or in that commit leaves the column null.
attached_embedding_id(failure, embedding_id) ==
    IF failure = "none" THEN Some(embedding_id) ELSE None

\* Resolver.store_log_with_embedding called by the ingest_log route with the
\* output of LogParser.parse_structured_log.  failure names the step that
\* raises: the first commit, generate_embedding, add_embedding, the second
\* commit, or none.
store_log_with_embedding(error_message, failure) ==
    LET normalized == normalize_text(error_message)
        id    == Cardinality(logEntries) + 1
        row   == [id |-> id, error_message |-> error_message,
                  normalized_text |-> Some(normalized), embedding_id |-> None]
        emb   == [id |-> "log_" \o Str(id), log_id |-> Some(Str(id))]
    IN  /\ pc \in {"idle", "done"}
        /\ Cardinality(logEntries) < MaxLogs
        /\ EmbeddingRejects(normalized) => failure \in {"commit", "generate_embedding"}
        /\ logEntries' =
             IF failure = "commit" THEN logEntries
             ELSE logEntries \cup
                    {[row EXCEPT !.embedding_id = attached_embedding_id(failure, emb.id)]}
        /\ vectorIndex' =
             IF failure \in {"none", "commit2"} /\ emb.id \notin {e.id : e \in vectorIndex}
             THEN vectorIndex \cup {emb} ELSE vectorIndex
        /\ ForgetRequest
        /\ UNCHANGED <<history, nDirect, pureVars, procVars>>

StoreLog ==
    \E error_message \in IngestMessages :
      \E failure \in {"none", "commit", "generate_embedding", "add_embedding", "commit2"} :
        store_log_with_embedding(error_message, failure)

\* VectorStore.add_embedding called directly
add_embedding(embedding_id, log_id) ==
    /\ pc \in {"idle", "done"}
    /\ nDirect < MaxDirect
    /\ embedding_id \notin {e.id : e \in vectorIndex}
    /\ vectorIndex' = vectorIndex \cup {[id |-> embedding_id, log_id |-> log_id]}
    /\ nDirect' = nDirect + 1
    /\ ForgetRequest
    /\ UNCHANGED <<logEntries, history, pureVars, procVars>>

AddEmbedding ==
    \E embedding_id \in DirectIds : \E log_id \in DirectLogIds :
        add_embedding(embedding_id, log_id)


----------------------------------------------------------------------------
(* Completions the generative model is taken to produce *)

SampleRootCause == PyStr(<<"Pool too small">>)
SampleFixList   == PyList(<<PyStr(<<"Increase pool size">>)>>)
SampleFixText   == PyStr(<<"-", " ", "step one", "NL", "-", " ", "step two", "NL">>)

\* {"root_cause": ..., "recommended_fix": [...], "confidence": c}
JsonWithConfidence(c) ==
    PyDict([key \in {"root_cause", "recommended_fix", "confidence"} |->
              CASE key = "root_cause" -> SampleRootCause
                [] key = "recommended_fix" -> SampleFixList
                [] OTHER -> c])

\* {"root_cause": ..., "recommended_fix": "- step one\n- step two\n"}
JsonWithoutConfidence ==
    PyDict([key \in {"root_cause", "recommended_fix"} |->
              IF key = "root_cause" THEN SampleRootCause ELSE SampleFixText])

\* values the model puts under "confidence"
ConfidenceSamples ==
    <<PyNum(Fin(3)), PyNum(Fin(14)), PyNum(Fin(-2)), PyNum(NaN), PyNum(PosInf),
      PyNum(NegInf), PyStr(<<"0.9">>), PyStr(<<"high">>), PyNone, PyBool(TRUE)>>

RootCauseLine == Line({"root cause"}, TRUE, <<"pool too small">>,
                      <<"pool too small">>, <<"Root cause: pool too small">>, 26)
FixLine       == Line({"fix"}, TRUE, <<"increase pool size">>,
                      <<"increase pool size">>, <<"Fix: increase pool size">>, 23)
ConfidenceLine(num) == Line({"confidence"}, TRUE, num, num,
                            <<"Confidence: ">> \o num, 16)
ProseLine     == Line({}, FALSE, << >>, <<"Here is my analysis">>,
                      <<"Here is my analysis">>, 19)

\* the numbers a confidence line ends with
ConfidenceTexts == <<<<"0.9">>, <<"1.4">>, <<"-0.2">>, <<"85">>, <<"nan">>, <<"high">>>>

\* the completions, as a sequence (the values of a Python dict are of
\* different types)
Completions ==
    <<CompletionRaised, NoChoices, NoContent>>
    \o [i \in 1..Len(ConfidenceSamples) |->
          Completion(<<Json(JsonWithConfidence(ConfidenceSamples[i]))>>)]
    \o [i \in 1..Len(ConfidenceTexts) |->
          Completion(<<Text(RootCauseLine), Text(FixLine),
                       Text(ConfidenceLine(ConfidenceTexts[i]))>>)]
    \o <<Completion(<<Json(JsonWithoutConfidence)>>),
          Completion(<<Json(PyList(<< >>))>>),
          Completion(<<FenceJson, Json(JsonWithConfidence(PyNum(Fin(14)))), Fence>>),
          Completion(<<Fence, Json(JsonWithConfidence(PyNum(Fin(-2)))), Fence>>),
          Completion(<<FenceJson, Json(JsonWithConfidence(PyNum(Fin(14))))>>),
          Completion(<<Text(ProseLine), Json(JsonWithConfidence(PyNum(Fin(14))))>>),
          Completion(<<Text(ProseLine)>>)>>

\* the completions the requests of the pipeline receive
PipelineCompletions ==
    <<CompletionRaised,
      NoContent,
      Completion(<<Json(JsonWithConfidence(PyNum(Fin(14))))>>),
      Completion(<<Json(JsonWithConfidence(PyNum(Fin(-2))))>>),
      Completion(<<Json(JsonWithConfidence(PyNum(NaN)))>>),
      Completion(<<Json(JsonWithConfidence(PyStr(<<"high">>)))>>),
      Completion(<<Json(JsonWithoutConfidence)>>),
      Completion(<<FenceJson, Json(JsonWithConfidence(PyNum(Fin(3)))), Fence>>),
      Completion(<<Text(RootCauseLine), Text(FixLine),
                   Text(ConfidenceLine(<<"85">>))>>),
      Completion(<<Text(ProseLine)>>)>>

----------------------------------------------------------------------------
(* Resolution requests.  The requests of this specification are served one  *)
(* after the other: a request starts when none is being served.             *)

\* variant that lets the exception through
resolver_except_reraise(inner) == inner

\* resolver.py lines 108-110 and 184-186: what the except clause of
\* resolve_error and resolve_log_entry raises for an exception raised inside
resolver_except(inner) == "RAGError"

RaisedOutcome(inner) == [status |-> "raised", exc |-> resolver_except(inner),
                         result |-> None]
ReturnedOutcome(result) == [status |-> "returned", exc |-> "", result |-> Some(result)]

\* variant that runs the pipeline again when a Resolver call has ended
AfterResolver_again(c) == "retrieve"

\* variant in which a Resolver call goes on to the persistence step
AfterResolver_persist(c) == "persist"

\* where a Resolver call goes once it has returned or raised
AfterResolver(c) == IF c.via = "route" THEN "respond" ELSE "done"

\* variant in which every call that was given a session stores a row
PersistsHistory_any_mode(c) == c.db

\* resolver.py lines 149-150: resolve_log_entry stores a ResolutionHistory row
\* when it was given a session; resolve_error (lines 64-110) never does
PersistsHistory(c) == c.mode = "log_entry" /\ c.db

\* the dict a Resolver call returns (resolver.py lines 98-106 and 172-182)
ResultOf(c, res, similar, resolution_id) ==
    LET fix == _normalize_recommended_fix(res.recommended_fix)
    IN  IF c.mode = "log_entry"
        THEN [log_entry_id |-> c.log_id, root_cause |-> res.root_cause,
              recommended_fix |-> fix, confidence |-> res.confidence,
              similar_logs |-> similar, resolution_id |-> resolution_id]
        ELSE [root_cause |-> res.root_cause, recommended_fix |-> fix,
              confidence |-> res.confidence, similar_logs |-> similar]

StartRequest(c, position) ==
    /\ pc \in {"idle", "done"}
    /\ Len(history) < MaxHistory
    /\ call' = c
    /\ pc' = position
    /\ retrieval' = NoRetrieval
    /\ similar_logs' = << >>
    /\ llm_response' = None
    /\ resolution' = None
    /\ trace' = << >>
    /\ outcome' = NoOutcome

\* variant that finds a row for every id
LogEntryFound_any(log_id) == TRUE

\* resolution.py lines 53-58: db.query(LogEntry).filter(LogEntry.id ==
\* request.log_id).first() is not None
LogEntryFound(log_id) == log_id \in LogIdsStored

\* variant that tests request.log_text is not None
TextGiven_not_none(log_text) == log_text # None

\* resolution.py line 73: elif request.log_text
TextGiven(log_text) == log_text # None /\ Val(log_text) # << >>

\* POST /resolve (resolution.py lines 43-86): choice of the mode
resolve_route(log_id, log_text, top_k) ==
    /\ IF log_id # None
       THEN IF LogEntryFound(Val(log_id))
            THEN /\ StartRequest(Call("route", "log_entry", Val(log_id), None, top_k, TRUE),
                                 "retrieve")
                 /\ response' = NoResponse
            ELSE /\ StartRequest(Call("route", "none", Val(log_id), None, top_k, TRUE),
                                 "done")
                 /\ response' = [status |-> 404, detail |-> "not found", body |-> None]
       ELSE IF TextGiven(log_text)
            THEN /\ StartRequest(Call("route", "text", 0, log_text, top_k, FALSE),
                                 "retrieve")
                 /\ response' = NoResponse
            ELSE /\ StartRequest(Call("route", "none", 0, log_text, top_k, TRUE), "done")
                 /\ response' = [status |-> 400,
                                 detail |-> "Either log_id or log_text must be provided",
                                 body |-> None]
    /\ UNCHANGED <<dbVars, pureVars, procVars>>

RouteResolve ==
    \E log_id \in {None} \cup {Some(i) : i \in 1..MaxLogs} :
      \E log_text \in ResolveTexts : \E top_k \in 1..MaxTopK :
        resolve_route(log_id, log_text, top_k)

\* Resolver.resolve_error called directly, with or without a session
CallResolveError ==
    \E log_text \in ResolveTexts : \E top_k \in 1..MaxTopK : \E db \in BOOLEAN :
        /\ StartRequest(Call("direct", "text", 0, log_text, top_k, db), "retrieve")
        /\ response' = NoResponse
        /\ UNCHANGED <<dbVars, pureVars, procVars>>

\* Resolver.resolve_log_entry called directly, with or without a session
CallResolveLogEntry ==
    \E e \in logEntries : \E top_k \in 1..MaxTopK : \E db \in BOOLEAN :
        /\ StartRequest(Call("direct", "log_entry", e.id, None, top_k, db), "retrieve")
        /\ response' = NoResponse
        /\ UNCHANGED <<dbVars, pureVars, procVars>>

\* log_entry.normalized_text or log_entry.error_message
QueryTextOf(e) ==
    IF e.normalized_text # None /\ Val(e.normalized_text) # << >>
    THEN Val(e.normalized_text) ELSE e.error_message

\* resolver.py lines 74-85 and 125-136: parsing, retrieval and formatting, up
\* to the completion call
Retrieve ==
    /\ pc = "retrieve"
    /\ IF call.mode = "text" /\ call.log_text = None
       THEN \* UnstructuredLogRequest rejects a log_text that is no str
            /\ trace' = Append(trace, "parse_log_text")
            /\ outcome' = RaisedOutcome("ValidationError")
            /\ pc' = AfterResolver(call)
            /\ UNCHANGED <<retrieval, similar_logs>>
       ELSE LET text_mode == call.mode = "text"
                query_text == IF text_mode
                              THEN parse_log_text(Val(call.log_text)).normalized_text
                              ELSE QueryTextOf(Entry(call.log_id))
                k == IF text_mode THEN call.top_k ELSE call.top_k + 1
            IN  \E r \in retrieve_similar_logs(vectorIndex, query_text, k) :
                  /\ retrieval' = r
                  /\ IF r.status = "returned"
                     THEN /\ similar_logs' =
                               IF text_mode
                               THEN format_retrieval_results(r.results, None)
                               ELSE Take(format_retrieval_results(r.results,
                                                                  Some(call.log_id)),
                                         call.top_k)
                          /\ trace' = trace
                                \o (IF text_mode THEN <<"parse_log_text">> ELSE << >>)
                                \o r.calls \o <<"completion">>
                          /\ pc' = "awaiting"
                          /\ UNCHANGED outcome
                     ELSE /\ trace' = trace
                                \o (IF text_mode THEN <<"parse_log_text">> ELSE << >>)
                                \o r.calls
                          /\ outcome' = RaisedOutcome(r.exc)
                          /\ pc' = AfterResolver(call)
                          /\ UNCHANGED similar_logs
    /\ UNCHANGED <<dbVars, call, llm_response, resolution, response, pureVars, procVars>>


\* resolver.py lines 87-106 and 138-147: the completion arrives and
\* generate_resolution returns or raises
Complete ==
    /\ pc = "awaiting"
    /\ \E i \in 1..Len(PipelineCompletions) :
         LET c   == PipelineCompletions[i]
             gen == generate_resolution(c)
         IN  /\ llm_response' = Some(c)
             /\ IF ~gen.ok
                THEN /\ resolution' = None
                     /\ outcome' = RaisedOutcome(gen.exc)
                     /\ pc' = AfterResolver(call)
                ELSE /\ resolution' = Some(gen.val)
                     /\ IF PersistsHistory(call)
                        THEN pc' = "persist" /\ UNCHANGED outcome
                        ELSE /\ outcome' = ReturnedOutcome(
                                    ResultOf(call, gen.val, similar_logs, None))
                             /\ pc' = AfterResolver(call)
    /\ UNCHANGED <<dbVars, call, retrieval, similar_logs, trace,
                   response, pureVars, procVars>>

\* ids kept in similar_log_ids: [log.get("id") for log in similar_logs if log.get("id")]
RECURSIVE SimilarIds(_)
SimilarIds(similar) ==
    IF similar = << >> THEN << >>
    ELSE (IF similar[1].id # "" THEN <<similar[1].id>> ELSE << >>)
         \o SimilarIds(Tail(similar))

\* variant that never hands the id of the row back
resolution_id_after_lost(failure, row_id) == None

\* variant that keeps the id of the row after a failure
resolution_id_after_kept(failure, row_id) == Some(row_id)

\* resolver.py lines 149-170: resolution_id is the id of the refreshed row, or
\* None when add, commit or refresh raised
resolution_id_after(failure, row_id) ==
    IF failure = "none" THEN Some(row_id) ELSE None

\* resolver.py lines 149-182: the ResolutionHistory row is added, committed
\* and refreshed; failure names the session call that raises, or none.  The
\* trace gets the session calls made, with "raise" after the one that raised.
persist_resolution(failure) ==
    LET res == Val(resolution)
        row == [id |-> Len(history) + 1,
                log_entry_id |-> call.log_id,
                root_cause |-> res.root_cause,
                recommended_fix |-> _normalize_recommended_fix(res.recommended_fix),
                confidence_score |-> res.confidence,
                similar_log_ids |-> SimilarIds(similar_logs),
                top_k |-> call.top_k]
        committed == failure \in {"none", "refresh"}
        calls == CASE failure = "add" -> <<"add", "raise", "rollback">>
                   [] failure = "commit" -> <<"add", "commit", "raise", "rollback">>
                   [] failure = "refresh" ->
                        <<"add", "commit", "refresh", "raise", "rollback">>
                   [] OTHER -> <<"add", "commit", "refresh">>
        resolution_id == resolution_id_after(failure, row.id)
    IN  /\ history' = IF committed THEN Append(history, row) ELSE history
        /\ trace' = trace \o calls
        /\ outcome' = ReturnedOutcome(ResultOf(call, res, similar_logs, resolution_id))

\* variant whose rollback also discards the LogEntry rows
Persist_rollback_all ==
    /\ pc = "persist"
    /\ \E failure \in {"none", "add", "commit", "refresh"} :
         /\ persist_resolution(failure)
         /\ logEntries' = IF failure = "none" THEN logEntries ELSE {}
    /\ pc' = AfterResolver(call)
    /\ llm_response' = None
    /\ UNCHANGED <<vectorIndex, nDirect, call, retrieval,
                   similar_logs, resolution, response, pureVars, procVars>>

Persist ==
    /\ pc = "persist"
    /\ \E failure \in {"none", "add", "commit", "refresh"} : persist_resolution(failure)
    /\ pc' = AfterResolver(call)
    /\ llm_response' = None
    /\ UNCHANGED <<logEntries, vectorIndex, nDirect, call, retrieval,
                   similar_logs, resolution, response, pureVars, procVars>>

\* variant that answers with every match
SimilarLogResponses_unchecked(similar) ==
    [i \in 1..Len(similar) |->
        [id |-> IF IntOf(similar[i].id) = None THEN 0 ELSE Val(IntOf(similar[i].id))]]

\* resolution.py lines 91-118: the similar logs that have a LogEntry row
RECURSIVE SimilarLogResponses(_)
SimilarLogResponses(similar) ==
    IF similar = << >> THEN << >>
    ELSE LET log_id == similar[1].id
             known  == /\ log_id # ""
                       /\ IntOf(log_id) # None
                       /\ Val(IntOf(log_id)) \in LogIdsStored
         IN  (IF known THEN <<[id |-> Val(IntOf(log_id))]>> ELSE << >>)
             \o SimilarLogResponses(Tail(similar))

\* resolution.py lines 88-149: the route answers
Respond ==
    /\ pc = "respond"
    /\ response' =
         IF outcome.status = "raised"
         THEN [status |-> 500, detail |-> "Failed to resolve error", body |-> None]
         ELSE LET result == Val(outcome.result)
              IN  IF result.root_cause.t # "str"
                  THEN \* ResolutionResponse rejects a root_cause that is no str
                       [status |-> 500, detail |-> "Internal server error", body |-> None]
                  ELSE [status |-> 200, detail |-> "",
                        body |-> Some(
                          [log_id |-> Get(result, "log_entry_id", 0),
                           root_cause |-> result.root_cause,
                           recommended_fix |-> result.recommended_fix,
                           confidence |-> result.confidence,
                           similar_logs |-> SimilarLogResponses(result.similar_logs),
                           resolution_id |-> Get(result, "resolution_id", None)])]
    /\ pc' = "done"
    /\ UNCHANGED <<dbVars, call, retrieval, similar_logs, llm_response,
                   resolution, trace, outcome, pureVars, procVars>>

\* GET /analysis/{log_id}/similar (analysis.py lines 35-113)
analyze_log_similarity(log_id, top_k) ==
    IF log_id \notin LogIdsStored
    THEN /\ StartRequest(Call("analysis", "none", log_id, None, top_k, TRUE), "done")
         /\ response' = [status |-> 404, detail |-> "not found", body |-> None]
    ELSE \E r \in retrieve_similar_logs(vectorIndex, QueryTextOf(Entry(log_id)), top_k + 1) :
           LET similar == Take(format_retrieval_results(r.results, Some(log_id)), top_k)
           IN  /\ pc \in {"idle", "done"}
               /\ Len(history) < MaxHistory
               /\ call' = Call("analysis", "log_entry", log_id, None, top_k, TRUE)
               /\ pc' = "done"
               /\ retrieval' = r
               /\ similar_logs' = IF r.status = "returned" THEN similar ELSE << >>
               /\ llm_response' = None
               /\ resolution' = None
               /\ trace' = r.calls
               /\ outcome' = NoOutcome
               /\ response' =
                    IF r.status = "raised"
                    THEN [status |-> 500, detail |-> "Failed to retrieve similar logs",
                          body |-> None]
                    ELSE [status |-> 200, detail |-> "",
                          body |-> Some([log_id |-> log_id,
                                         similar_logs |-> SimilarLogResponses(similar)])]

RouteAnalysis ==
    /\ \E log_id \in 1..MaxLogs : \E top_k \in 1..MaxTopK :
          analyze_log_similarity(log_id, top_k)
    /\ UNCHANGED <<dbVars, pureVars, procVars>>

----------------------------------------------------------------------------
(* The resolution pipeline *)

NoPure == fn = "" /\ args = << >> /\ ret = << >>

\* the getters of the lazily constructed shared instances
Getters == {"get_resolver", "get_retriever", "get_rag_engine", "get_vector_store"}

\* no instance is constructed and no request is being served
NoTasks ==
    /\ globals = [g \in Getters |-> 0]
    /\ built = [g \in Getters |-> 0]
    /\ tasks = << >>

Init ==
    /\ logEntries = {}
    /\ vectorIndex = {}
    /\ history = << >>
    /\ nDirect = 0
    /\ pc = "idle"
    /\ call = NoCall
    /\ retrieval = NoRetrieval
    /\ similar_logs = << >>
    /\ llm_response = None
    /\ resolution = None
    /\ trace = << >>
    /\ outcome = NoOutcome
    /\ response = NoResponse
    /\ NoPure
    /\ NoTasks

Next ==
    \/ StoreLog
    \/ AddEmbedding
    \/ RouteResolve
    \/ CallResolveError
    \/ CallResolveLogEntry
    \/ RouteAnalysis
    \/ Retrieve
    \/ Complete
    \/ Persist
    \/ Respond

Spec == Init /\ [][Next]_vars

----------------------------------------------------------------------------
(* Pure functions, applied to arguments drawn from bounded sets.  The       *)
(* pipeline stays in its initial state.                                     *)

MaxTextLen == 3    \* tokens of a text given to normalize_text
MaxHits    == 3    \* hits given to format_retrieval_results

IdlePipeline ==
    /\ logEntries = {}
    /\ vectorIndex = {}
    /\ history = << >>
    /\ nDirect = 0
    /\ pc = "idle"
    /\ call = NoCall
    /\ retrieval = NoRetrieval
    /\ similar_logs = << >>
    /\ llm_response = None
    /\ resolution = None
    /\ trace = << >>
    /\ outcome = NoOutcome
    /\ response = NoResponse

\* the texts of at most n tokens
TextsUpTo(n) ==
    UNION {{t \in [1..k -> Tokens] : WellFormed(t)} : k \in 0..n}

\* normalize_text applied to a text, and then to its own result
InitNormalize ==
    /\ IdlePipeline
    /\ NoTasks
    /\ fn = "normalize_text"
    /\ args \in {<<t>> : t \in TextsUpTo(MaxTextLen)}
    /\ ret = << >>

ApplyNormalize ==
    /\ fn = "normalize_text"
    /\ Len(ret) < 2
    /\ ret' = Append(ret, normalize_text(IF ret = << >> THEN args[1]
                                                         ELSE ret[Len(ret)]))
    /\ UNCHANGED <<dbVars, reqVars, fn, args, procVars>>

NextNormalize == ApplyNormalize

SpecNormalize == InitNormalize /\ [][NextNormalize]_vars

\* raw hits: the embedding id and the log_id of the metadata, if any
HitIds    == {"2", "7", "9"}
HitLogIds == {None, Some("2"), Some("7")}
Hits      == [id : HitIds, log_id : HitLogIds]
ExcludeIds == {None, Some(2), Some(7)}

HitListsUpTo(n) == UNION {[1..k -> Hits] : k \in 0..n}

\* format_retrieval_results applied to a list of hits and an exclude_id
InitFormat ==
    /\ IdlePipeline
    /\ NoTasks
    /\ fn = "format_retrieval_results"
    /\ args \in {<<r, x>> : r \in HitListsUpTo(MaxHits), x \in ExcludeIds}
    /\ ret = << >>

ApplyFormat ==
    /\ fn = "format_retrieval_results"
    /\ ret = << >>
    /\ ret' = <<format_retrieval_results(args[1], args[2])>>
    /\ UNCHANGED <<dbVars, reqVars, fn, args, procVars>>

NextFormat == ApplyFormat

SpecFormat == InitFormat /\ [][NextFormat]_vars

MaxWords  == 3    \* words of a text given to extract_error_level
MaxFixLen == 4    \* characters of a str given to _normalize_recommended_fix

\* characters of the strings given to _normalize_recommended_fix; "step" is
\* a run of letters
FixChars == {" ", "-", "BULLET", "TAB", "NL", "step"}

\* values given to _normalize_recommended_fix that are no str
FixValues ==
    <<PyNone, PyList(<< >>), SampleFixList,
      PyList(<<PyStr(<<"a">>), PyStr(<<" ">>), PyStr(<<"b">>)>>),
      PyList(<<PyNum(Fin(10)), PyNone, PyStr(<< >>)>>),
      PyNum(Fin(0)), PyNum(Fin(5)), PyBool(FALSE), PyBool(TRUE),
      PyDict([key \in {"a"} |-> PyNum(Fin(10))]), PyDict([key \in {} |-> PyNone])>>

\* ids of the matches a resolver result holds: none, of a stored LogEntry, of
\* no LogEntry, and no integer
SimilarLogIds == {"", "1", "2", "e"}

\* extract_error_level and _normalize_recommended_fix applied to one
\* argument, and the loop of the /resolve route over the similar_logs of a
\* resolver result while LogEntry 1 is stored
InitPure ==
    /\ ret = << >>
    /\ NoTasks
    /\ vectorIndex = {} /\ history = << >> /\ nDirect = 0
    /\ pc = "idle" /\ call = NoCall /\ retrieval = NoRetrieval
    /\ similar_logs = << >> /\ llm_response = None /\ resolution = None
    /\ trace = << >> /\ outcome = NoOutcome /\ response = NoResponse
    /\ \/ /\ fn = "similar_log_responses"
          /\ args \in {<<hits>> :
                hits \in UNION {[1..k -> [id : SimilarLogIds]] : k \in 0..MaxHits}}
       \/ /\ fn = "extract_error_level"
          /\ args \in {<<t>> : t \in UNION {[1..k -> LevelWords] : k \in 0..MaxWords}}
       \/ /\ fn = "_normalize_recommended_fix"
          /\ args \in {<<PyStr(str)>> :
                          str \in UNION {[1..k -> FixChars] : k \in 0..MaxFixLen}}
       \/ /\ fn = "_normalize_recommended_fix"
          /\ \E i \in 1..Len(FixValues) : args = <<FixValues[i]>>
    /\ logEntries = IF fn = "similar_log_responses"
                    THEN {[id |-> 1, error_message |-> <<"w">>,
                           normalized_text |-> Some(normalize_text(<<"w">>)),
                           embedding_id |-> Some("log_1")]}
                    ELSE {}

ApplyPure ==
    /\ fn \in {"extract_error_level", "_normalize_recommended_fix",
               "similar_log_responses"}
    /\ ret = << >>
    /\ ret' = CASE fn = "extract_error_level" -> <<extract_error_level(args[1])>>
                [] fn = "similar_log_responses" -> <<SimilarLogResponses(args[1])>>
                [] OTHER -> <<_normalize_recommended_fix(args[1])>>
    /\ UNCHANGED <<dbVars, reqVars, fn, args, procVars>>

NextPure == ApplyPure

SpecPure == InitPure /\ [][NextPure]_vars

----------------------------------------------------------------------------
(* RAGEngine.generate_resolution applied to a completion *)

MaxLines == 3    \* lines of a completion that is no JSON

BlankLine     == Line({}, FALSE, << >>, << >>, << >>, 0)
LongLine      == Line({}, FALSE, << >>, <<"250 characters">>, <<"250 characters">>, 250)
SolutionLine  == Line({"solution"}, FALSE, << >>, <<"The solution is a restart">>,
                      <<"The solution is a restart">>, 25)
RootCauseNoColon == Line({"root cause"}, FALSE, << >>, <<"The root cause is unknown">>,
                         <<"The root cause is unknown">>, 25)

\* the lines of the completions that are no JSON
LineSamples == {RootCauseLine, FixLine, ConfidenceLine(<<"0.9">>),
                ConfidenceLine(<<"high">>), ProseLine, BlankLine, LongLine}

\* longer completions: paragraphs set apart by one, two and three empty
\* lines, and section headers without a colon
TextSamples ==
    <<<<ProseLine, BlankLine, LongLine, BlankLine, ProseLine>>,
      <<ProseLine, BlankLine, BlankLine, LongLine>>,
      <<ProseLine, BlankLine, BlankLine, BlankLine, LongLine>>,
      <<ProseLine, RootCauseNoColon, ProseLine, SolutionLine, LongLine>>,
      <<RootCauseLine, ProseLine, ConfidenceLine(<<"0.3">>), LongLine, SolutionLine>>,
      <<ProseLine, ProseLine, SolutionLine, BlankLine, ProseLine>>,
      <<FixLine, ProseLine,
        Line({"root cause", "fix"}, TRUE, <<"needs a fix">>, <<"needs a fix">>,
             <<"Root cause: needs a fix">>, 23),
        ProseLine>>,
      <<RootCauseLine,
        Line({"solution", "confidence"}, TRUE, <<"0.9">>, <<"0.9">>,
             <<"Solution confidence: 0.9">>, 24),
        ProseLine, ConfidenceLine(<<"0.3">>), ProseLine>>>>

\* content.strip() neither begins nor ends with an empty line
Stripped(lines) ==
    lines # << >> => lines[1].n > 0 /\ lines[Len(lines)].n > 0

InitGenerate ==
    /\ IdlePipeline
    /\ NoTasks
    /\ fn = "generate_resolution"
    /\ ret = << >>
    /\ \/ \E i \in 1..Len(Completions) : args = <<Completions[i]>>
       \/ \E i \in 1..Len(TextSamples) :
             args = <<Completion([k \in 1..Len(TextSamples[i]) |-> Text(TextSamples[i][k])])>>
       \/ args \in {<<Completion([k \in 1..Len(lines) |-> Text(lines[k])])>> :
                      lines \in {l \in UNION {[1..n -> LineSamples] : n \in 0..MaxLines} :
                                    Stripped(l)}}

ApplyGenerate ==
    /\ fn = "generate_resolution"
    /\ ret = << >>
    /\ ret' = <<generate_resolution(args[1])>>
    /\ UNCHANGED <<dbVars, reqVars, fn, args, procVars>>

SpecGenerate == InitGenerate /\ [][ApplyGenerate]_vars

----------------------------------------------------------------------------
(* The shared instances.  A request is a coroutine of one event loop; the   *)
(* getters are followed statement by statement.                             *)

MaxTasks == 3    \* requests on the event loop

\* the routes and the getter each calls first: resolution.py line 45,
\* logs.py lines 60 and 121, analysis.py line 47, health.py line 54
Routes == {"resolve", "ingest", "analyze", "health"}

\* variant in which a request may run at any moment, as a thread would
MayRun_preemptive(t) == TRUE

\* the routes are async def and neither the getters nor the constructors
\* contain an await: once a request runs, no other request runs until it
\* awaits or returns, so none runs while another is between the test and
\* the assignment of a getter
MayRun(t) == \A u \in DOMAIN tasks \ {t} : tasks[u].at # "tested"

RECURSIVE get_instance(_, _)
\* X() followed by the assignment to the global (line 256 of resolver.py,
\* 127 of retriever.py, 224 of rag_engine.py, 212 of vector_store.py).
\* Resolver.__init__ calls get_vector_store, get_retriever and
\* get_rag_engine, Retriever.__init__ calls get_vector_store (the getter of
\* the embedding service is not part of the sources at hand).
construct(getter, st) ==
    LET deps == CASE getter = "get_resolver" ->
                       <<"get_vector_store", "get_retriever", "get_rag_engine">>
                  [] getter = "get_retriever" -> <<"get_vector_store">>
                  [] OTHER -> << >>
        s1 == IF Len(deps) >= 1 THEN get_instance(deps[1], st) ELSE st
        s2 == IF Len(deps) >= 2 THEN get_instance(deps[2], s1) ELSE s1
        s3 == IF Len(deps) >= 3 THEN get_instance(deps[3], s2) ELSE s2
    IN  [globals |-> [s3.globals EXCEPT ![getter] = s3.built[getter] + 1],
         built   |-> [s3.built EXCEPT ![getter] = @ + 1]]

\* a getter called from a constructor: if the global is None it is set to a
\* new instance
get_instance(getter, st) ==
    IF st.globals[getter] # 0 THEN st ELSE construct(getter, st)

\* a request starts and its getter tests the global (if _x is None)
TestGlobal(t) ==
    /\ tasks[t].at = "new"
    /\ MayRun(t)
    /\ LET getter == CASE tasks[t].route \in {"resolve", "ingest"} -> "get_resolver"
                       [] tasks[t].route = "analyze" -> "get_retriever"
                       [] OTHER -> "get_vector_store"
       IN  tasks' = [tasks EXCEPT ![t] =
                       [route |-> @.route, getter |-> getter,
                        was_none |-> globals[getter] = 0, got |-> 0, at |-> "tested"]]
    /\ UNCHANGED <<dbVars, reqVars, pureVars, globals, built>>

\* the getter constructs and assigns if the test found None, and returns
\* the global; the request runs on to its first await.  Only /resolve
\* awaits (the Resolver call, resolution.py lines 64 and 76); the other
\* routes finish in the same turn.
ReturnGlobal(t) ==
    /\ tasks[t].at = "tested"
    /\ MayRun(t)
    /\ LET st    == [globals |-> globals, built |-> built]
           after == IF tasks[t].was_none THEN construct(tasks[t].getter, st) ELSE st
       IN  /\ globals' = after.globals
           /\ built' = after.built
           /\ tasks' = [tasks EXCEPT ![t].got = after.globals[tasks[t].getter],
                                     ![t].at = IF tasks[t].route = "resolve"
                                               THEN "awaiting" ELSE "done"]
    /\ UNCHANGED <<dbVars, reqVars, pureVars>>

\* the awaited Resolver call of a /resolve request completes
Resume(t) ==
    /\ tasks[t].at = "awaiting"
    /\ MayRun(t)
    /\ tasks' = [tasks EXCEPT ![t].at = "done"]
    /\ UNCHANGED <<dbVars, reqVars, pureVars, globals, built>>

InitSingletons ==
    /\ IdlePipeline
    /\ NoPure
    /\ globals = [g \in Getters |-> 0]
    /\ built = [g \in Getters |-> 0]
    /\ tasks \in [1..MaxTasks -> [route : Routes, getter : {""}, was_none : {FALSE},
                                   got : {0}, at : {"new"}]]

NextSingletons ==
    \/ \E t \in 1..MaxTasks : TestGlobal(t)
    \/ \E t \in 1..MaxTasks : ReturnGlobal(t)
    \/ \E t \in 1..MaxTasks : Resume(t)

SpecSingletons == InitSingletons /\ [][NextSingletons]_vars

----------------------------------------------------------------------------
(* Properties *)

InSeq(x, seq) == \E i \in 1..Len(seq) : seq[i] = x

\* the request being served is a Resolver call (direct or through /resolve)
ResolverCall == call.via \in {"route", "direct"} /\ call.mode \in {"text", "log_entry"}

\* the value the completion holds under "confidence", when it is one JSON
\* object with a numeric confidence
RawConfidenceIs(f) ==
    /\ llm_response # None
    /\ Val(llm_response).kind = "content"
    /\ Len(Val(llm_response).content) = 1
    /\ Val(llm_response).content[1].c = "json"
    /\ Val(llm_response).content[1].v.t = "dict"
    /\ "confidence" \in DOMAIN Val(llm_response).content[1].v.v
    /\ Val(llm_response).content[1].v.v["confidence"].t = "float"
    /\ Val(llm_response).content[1].v.v["confidence"].v = f

\* C1: every result returned by generate_resolution, and every result
\* returned by resolve_error and resolve_log_entry, has a confidence c with
\* 0.0 <= c <= 1.0, whatever the completion was.
ConfidenceInUnitInterval ==
    /\ resolution # None => InUnitInterval(Val(resolution).confidence)
    /\ outcome.status = "returned" => InUnitInterval(Val(outcome.result).confidence)

\* a completion with confidence 1.4 was received and the call returned 1.0
ConfidenceClampedWitness ==
    /\ RawConfidenceIs(Fin(14))
    /\ outcome.status = "returned"
    /\ Val(outcome.result).confidence = Fin(10)

\* C2: when add, commit or refresh of the ResolutionHistory row raises in
\* resolve_log_entry, the session is rolled back and the call returns (it
\* does not raise) the root_cause, recommended_fix, confidence and
\* similar_logs of the generated resolution, with resolution_id None.
PersistenceFailureAbsorbed ==
    InSeq("raise", trace) =>
        /\ InSeq("rollback", trace)
        /\ outcome.status = "returned"
        /\ Val(outcome.result).resolution_id = None
        /\ Val(outcome.result).root_cause = Val(resolution).root_cause
        /\ Val(outcome.result).recommended_fix =
               _normalize_recommended_fix(Val(resolution).recommended_fix)
        /\ Val(outcome.result).confidence = Val(resolution).confidence
        /\ Val(outcome.result).similar_logs = similar_logs

\* commit raised after add, and the call returned without a resolution_id
CommitFailureWitness ==
    /\ call.mode = "log_entry"
    /\ Len(trace) >= 4
    /\ SubSeq(trace, Len(trace) - 3, Len(trace)) = <<"add", "commit", "raise", "rollback">>
    /\ outcome.status = "returned"
    /\ Val(outcome.result).resolution_id = None
    /\ history = << >>

\* the step in which a resolve_log_entry call returns
LogEntryCallReturns ==
    /\ ResolverCall
    /\ call.mode = "log_entry"
    /\ outcome.status # "returned"
    /\ outcome'.status = "returned"
    /\ ~InSeq("raise", trace')

\* the call stored exactly one row, for the resolved record, with the
\* returned confidence, and returned its id
StoredOneRow ==
    /\ Len(history') = Len(history) + 1
    /\ SubSeq(history', 1, Len(history)) = history
    /\ history'[Len(history')].log_entry_id = call.log_id
    /\ history'[Len(history')].confidence_score = Val(outcome'.result).confidence
    /\ Val(outcome'.result).resolution_id = Some(history'[Len(history')].id)

\* the steps of a request before its return store nothing
StoresNothingBeforeReturn ==
    (pc \in {"retrieve", "awaiting", "respond"} /\ outcome'.status # "returned")
        => history' = history

\* C3 as stated: every resolve_log_entry call whose retrieval and generation
\* succeed and whose store does not fail creates exactly one
\* ResolutionHistory row, with the record's id as log_entry_id and the
\* returned confidence as confidence_score, and returns the id of that row.
EverySuccessfulCallStoresOneRow ==
    [][(LogEntryCallReturns => StoredOneRow) /\ StoresNothingBeforeReturn]_vars

\* C3, amended: the same for the calls that were given a db_session; a call
\* without one (the default) stores nothing and returns resolution_id None.
SessionCallStoresOneRow ==
    [][/\ (LogEntryCallReturns /\ call.db) => StoredOneRow
       /\ (LogEntryCallReturns /\ ~call.db) =>
              (history' = history /\ Val(outcome'.result).resolution_id = None)
       /\ StoresNothingBeforeReturn]_vars

\* a call with a session returned the id of the one row, whose confidence is
\* the clamped 1.0
StoredRowWitness ==
    /\ call.mode = "log_entry"
    /\ call.db
    /\ outcome.status = "returned"
    /\ Len(history) = 1
    /\ Val(outcome.result).resolution_id = Some(history[1].id)
    /\ history[1].log_entry_id = call.log_id
    /\ history[1].confidence_score = Fin(10)
    /\ Val(outcome.result).confidence = Fin(10)

\* C4: an ad-hoc resolution (resolve_error, the log_text mode of /resolve)
\* never stores a ResolutionHistory row and never yields a resolution_id,
\* also when resolve_error was given a db_session.
AdHocStoresNothing ==
    [][call'.mode = "text" =>
          /\ history' = history
          /\ outcome'.status = "returned" =>
                 Get(Val(outcome'.result), "resolution_id", None) = None
          /\ response'.status = 200 => Val(response'.body).resolution_id = None]_vars

\* resolve_error was given a session, returned, and no row exists
AdHocWithSessionWitness ==
    /\ call.mode = "text"
    /\ call.via = "direct"
    /\ call.db
    /\ outcome.status = "returned"
    /\ history = << >>

\* C5: no element of the similar_logs returned by resolve_log_entry or by
\* /analysis/{log_id}/similar has the id of the record being resolved.
SelfExcluded ==
    /\ (ResolverCall /\ call.mode = "log_entry" /\ outcome.status = "returned") =>
          \A i \in 1..Len(Val(outcome.result).similar_logs) :
              Val(outcome.result).similar_logs[i].id # Str(call.log_id)
    /\ (call.via = "analysis" /\ response.status = 200) =>
          \A i \in 1..Len(Val(response.body).similar_logs) :
              Str(Val(response.body).similar_logs[i].id) # Str(call.log_id)

\* C6: in both resolution modes the returned similar_logs has at most top_k
\* elements.
AtMostTopK ==
    (ResolverCall /\ outcome.status = "returned") =>
        Len(Val(outcome.result).similar_logs) <= call.top_k

\* resolve_log_entry got top_k + 1 hits, none of them the record's own, and
\* returned top_k of them
TruncatedWitness ==
    /\ call.mode = "log_entry"
    /\ outcome.status = "returned"
    /\ Len(retrieval.results) = call.top_k + 1
    /\ Len(format_retrieval_results(retrieval.results, Some(call.log_id)))
          = call.top_k + 1
    /\ Len(Val(outcome.result).similar_logs) = call.top_k

\* C7: a failure of parsing, retrieval or generation inside resolve_error or
\* resolve_log_entry reaches the caller as RAGError and as nothing else, and
\* the /resolve route answers it with status 500.
FailuresSurfaceAsRAGError ==
    /\ outcome.status = "raised" => outcome.exc = "RAGError"
    /\ (ResolverCall /\ pc \in {"respond", "done"}) =>
          IF retrieval.status = "returned" /\ resolution # None
          THEN outcome.status = "returned"
          ELSE outcome.status = "raised" /\ outcome.exc = "RAGError"
    /\ (call.via = "route" /\ pc = "done" /\ outcome.status = "raised") =>
          response.status = 500

\* the index query failed inside a /resolve request, which answered 500
RouteFailureWitness ==
    /\ call.via = "route"
    /\ pc = "done"
    /\ retrieval.inner = "VectorStoreError"
    /\ outcome.status = "raised"
    /\ outcome.exc = "RAGError"
    /\ response.status = 500

\* C8: retrieve_similar_logs raises RetrievalError for every failure of the
\* embedding generation (the rejection of the empty text included) and of the
\* index query, and does not query the index once the embedding failed.
RetrievalFailuresWrapped ==
    /\ retrieval.status = "raised" =>
          /\ retrieval.exc = "RetrievalError"
          /\ retrieval.inner \in {"EmbeddingError", "VectorStoreError"}
          /\ retrieval.inner = "EmbeddingError" =>
                ~InSeq("query_similar", retrieval.calls)
    /\ (call.via = "direct" /\ call.mode = "text" /\ call.log_text = Some(<< >>)
          /\ pc # "retrieve") =>
          (retrieval.status = "raised" /\ retrieval.exc = "RetrievalError"
             /\ retrieval.inner = "EmbeddingError")

\* the empty text was rejected and RetrievalError came out
EmptyTextWitness ==
    /\ call.mode = "text"
    /\ call.log_text = Some(<< >>)
    /\ retrieval.status = "raised"
    /\ retrieval.inner = "EmbeddingError"
    /\ retrieval.exc = "RetrievalError"
    /\ retrieval.calls = <<"generate_embedding">>

\* the hits whose resolved id is not str(exclude_id), in their order
RECURSIVE WithoutExcluded(_, _)
WithoutExcluded(results, exclude_id) ==
    IF results = << >> THEN << >>
    ELSE (IF exclude_id # None /\ ResolvedId(results[1]) = Str(Val(exclude_id))
          THEN << >>
          ELSE <<[id |-> ResolvedId(results[1])]>>)
         \o WithoutExcluded(Tail(results), exclude_id)

\* C9: format_retrieval_results returns the hits in their order, without
\* exactly those whose resolved id is str(exclude_id); without an exclude_id
\* it returns all of them.
FormatOmitsExcluded ==
    (fn = "format_retrieval_results" /\ ret # << >>) =>
        ret[1] = WithoutExcluded(args[1], args[2])

\* C10: normalize_text(normalize_text(t)) = normalize_text(t) for every t.
NormalizeIdempotent ==
    (fn = "normalize_text" /\ Len(ret) = 2) => ret[2] = ret[1]

\* the text contains one of the keywords, in any case
ContainsAnyCase(text, kws) ==
    \E i \in 1..Len(text) :
        \/ text[i] \in {"critical"} /\ "CRITICAL" \in kws
        \/ text[i] \in {"FATAL"} /\ "FATAL" \in kws
        \/ text[i] \in {"Panic"} /\ "PANIC" \in kws
        \/ text[i] \in {"error"} /\ "ERROR" \in kws
        \/ text[i] \in {"error", "stderr"} /\ "ERR" \in kws
        \/ text[i] \in {"Warning", "warn"} /\ "WARN" \in kws
        \/ text[i] \in {"debug"} /\ "DEBUG" \in kws

FixEntriesNonEmpty ==
    (fn = "_normalize_recommended_fix" /\ ret # << >>) =>
        \A i \in 1..Len(ret[1]) : ret[1][i] # << >>

\* the lines of a str that are not blank, in their order
RECURSIVE NonBlank(_)
NonBlank(lines) ==
    IF lines = << >> THEN << >>
    ELSE (IF \E i \in 1..Len(lines[1]) : lines[1][i] \notin {" ", "TAB"}
          THEN <<lines[1]>> ELSE << >>) \o NonBlank(Tail(lines))

\* C13: for a str, _normalize_recommended_fix returns one element per
\* non-blank line, in the order of the lines, each without its bullet, dash,
\* space and tab prefix; a str without a line break gives one element.
FixOneEntryPerLine ==
    (/\ fn = "_normalize_recommended_fix"
     /\ ret # << >>
     /\ args[1].t = "str"
     /\ NonBlank(SplitLines(args[1].v, << >>)) # << >>) =>
        LET lines == NonBlank(SplitLines(args[1].v, << >>))
        IN  /\ Len(ret[1]) = Len(lines)
            /\ \A i \in 1..Len(lines) :
                  ret[1][i] = StripChars(lines[i], {" ", "-", "BULLET", "TAB"})
            /\ (\A i \in 1..Len(args[1].v) : args[1].v[i] # "NL") => Len(ret[1]) = 1

\* no Resolver method ran for the request on record
ResolverNotInvoked ==
    /\ trace = << >>
    /\ retrieval = NoRetrieval
    /\ llm_response = None
    /\ resolution = None
    /\ outcome = NoOutcome

UnknownLogIdNotFound ==
    (/\ call.via = "route"
     /\ call.log_id # 0
     /\ call.log_id \notin LogIdsStored) =>
        /\ pc = "done"
        /\ response.status = 404
        /\ response.detail = "not found"
        /\ response.body = None
        /\ ResolverNotInvoked

\* log_id 2 was asked for while only LogEntry 1 was stored, with its
\* embedding
UnknownLogIdWitness ==
    /\ call.via = "route"
    /\ call.log_id = 2
    /\ LogIdsStored = {1}
    /\ vectorIndex # {}
    /\ response.status = 404

\* the match has an id, the id is an integer, and a LogEntry has it
HasLogEntry(hit) == hit.id \in {Str(e.id) : e \in logEntries}

SingletonsBuiltOnce ==
    /\ \A g \in Getters : built[g] <= 1
    /\ \A t \in DOMAIN tasks :
          tasks[t].at \in {"awaiting", "done"} =>
              /\ tasks[t].got = 1
              /\ tasks[t].got = globals[tasks[t].getter]

\* a /resolve request is suspended in its Resolver call while a health
\* check and a second /resolve request have got their instances
ConcurrentFirstCallsWitness ==
    /\ Len(tasks) = MaxTasks
    /\ \E t1, t2, t3 \in DOMAIN tasks :
          /\ t1 # t2
          /\ tasks[t1].route = "resolve" /\ tasks[t1].at = "awaiting"
          /\ tasks[t2].route = "resolve" /\ tasks[t2].at # "new"
          /\ tasks[t3].route = "health" /\ tasks[t3].at = "done"
    /\ \A g \in Getters : built[g] = 1

\* C19: no step of resolve_log_entry creates, changes or deletes a LogEntry
\* or an embedding, whether the call succeeds or its persistence fails and
\* is rolled back.
ResolveLeavesLogsAlone ==
    [][(call.mode = "log_entry" /\ pc \in {"retrieve", "awaiting", "persist"})
          => UNCHANGED <<logEntries, vectorIndex>>]_vars

\* the refresh of the ResolutionHistory row failed and the session was
\* rolled back while two LogEntry rows and their embeddings were stored
RollbackKeepsLogsWitness ==
    /\ call.mode = "log_entry"
    /\ Len(trace) >= 3
    /\ SubSeq(trace, Len(trace) - 2, Len(trace)) = <<"refresh", "raise", "rollback">>
    /\ Cardinality(logEntries) = 2
    /\ Cardinality(vectorIndex) >= 2

\* the calls of the request on record are in the order retrieval,
\* completion, session; a failed step was the last one
CallsInOrder ==
    /\ \A i, j \in 1..Len(trace) :
          /\ (trace[i] = "completion"
               /\ trace[j] \in {"parse_log_text", "generate_embedding", "query_similar"})
                 => j < i
          /\ (trace[i] \in {"add", "commit", "refresh", "rollback"}
               /\ trace[j] = "completion") => j < i
    /\ pc = "awaiting" => retrieval.status = "returned"
    /\ pc = "persist" => retrieval.status = "returned" /\ resolution # None
    /\ retrieval.status = "raised" =>
          /\ ~InSeq("completion", trace)
          /\ llm_response = None /\ resolution = None
    /\ (retrieval.status # "returned" \/ resolution = None) =>
          \A i \in 1..Len(trace) : trace[i] \notin {"add", "commit", "refresh"}

\* C20: the steps of a resolution request run in the order retrieval,
\* generation, persistence; the completion is not called when retrieval
\* failed, and no ResolutionHistory row is added or committed when
\* retrieval or generation failed.
PipelineInOrder ==
    /\ []CallsInOrder
    /\ [][history' # history =>
             /\ pc = "persist"
             /\ retrieval.status = "returned"
             /\ resolution # None]_vars

\* generation failed in a resolve_log_entry call that had a session: the
\* completion was the last call and no row was stored
GenerationFailedWitness ==
    /\ call.mode = "log_entry"
    /\ call.db
    /\ retrieval.status = "returned"
    /\ llm_response # None
    /\ resolution = None
    /\ outcome.status = "raised"
    /\ trace # << >>
    /\ trace[Len(trace)] = "completion"
    /\ history = << >>

\* generate_resolution was applied to a completion with a content
Generated == fn = "generate_resolution" /\ ret # << >> /\ args[1].kind = "content"

\* C21: generate_resolution returns confidence 0.5 whenever the parsed output
\* has no confidence or one that is no number (a JSON string such as "high",
\* a JSON null); such an output does not make the call fail.
NonNumericConfidenceDefaults ==
    Generated =>
        LET parsed == ParseCompletion(args[1].content)
            absent == parsed.t = "dict" /\ "confidence" \notin DOMAIN parsed.v
            given  == parsed.t = "dict" /\ "confidence" \in DOMAIN parsed.v
            non_numeric ==
                given /\ (\/ parsed.v["confidence"].t = "none"
                          \/ /\ parsed.v["confidence"].t = "str"
                             /\ ParseFloat(parsed.v["confidence"].v) = None)
        IN  (absent \/ non_numeric) =>
                ret[1].ok /\ ret[1].val.confidence = Fin(5)

\* C22: whenever the output yields no root_cause (no recommended_fix), as JSON
\* or through the heuristic parser, the result carries the placeholder
\* "Unable to determine root cause" ("No specific fix recommended"), so a
\* returned root_cause is never empty.
MissingFieldsGetPlaceholders ==
    (Generated /\ ret[1].ok) =>
        LET parsed == ParseCompletion(args[1].content).v
            none(key) == \/ key \notin DOMAIN parsed
                         \/ parsed[key].t = "str" /\ parsed[key].v = << >>
            rc  == ret[1].val.root_cause
            fix == ret[1].val.recommended_fix
        IN  /\ none("root_cause") => rc.t = "str" /\ rc.v = DefaultRootCause.v
            /\ none("recommended_fix") => fix.t = "str" /\ fix.v = DefaultFix.v
            /\ ~(rc.t = "str" /\ rc.v = << >>)

\* C26: generate_resolution raises RAGError and returns nothing whenever the
\* completion call raises, returns no choices or returns an empty content; no
\* result is built from an empty completion.
EmptyCompletionRaises ==
    (fn = "generate_resolution" /\ ret # << >>) =>
        /\ args[1].kind \in {"raise", "no_choices", "no_content"} =>
              ~ret[1].ok /\ ret[1].exc = "RAGError"
        /\ ret[1].ok => args[1].kind = "content" /\ args[1].content # << >>

\* the lines of a completion that consists of lines of text
TextLines == [i \in 1..Len(args[1].content) |-> args[1].content[i].v]

ScanAfter(k) ==
    ScanLines([section |-> "none", root_cause |-> << >>,
               recommended_fix |-> << >>, confidence |-> Fin(5)],
              SubSeq(TextLines, 1, k))

\* C24: the line scan is a state machine with an active section: a line
\* with "root cause" opens root_cause and resets that field; else a line with
\* "fix" or "solution" opens recommended_fix and resets that field; else a
\* line with "confidence" changes neither the section nor the two fields;
\* any other non-empty line is appended, after a space, to the field of the
\* active section, and dropped when there is none.
LineScanIsStateMachine ==
    (/\ Generated
     /\ \A i \in 1..Len(args[1].content) : args[1].content[i].c = "line") =>
        /\ ScanAfter(0).section = "none"
        /\ \A k \in 1..Len(TextLines) :
              LET line   == TextLines[k]
                  before == ScanAfter(k - 1)
                  after  == ScanAfter(k)
                  reset  == IF line.colon THEN line.after1 ELSE << >>
                  same   == /\ after.section = before.section
                            /\ after.root_cause = before.root_cause
                            /\ after.recommended_fix = before.recommended_fix
              IN  IF "root cause" \in line.kw
                  THEN /\ after.section = "root_cause"
                       /\ after.root_cause = reset
                       /\ after.recommended_fix = before.recommended_fix
                  ELSE IF "fix" \in line.kw \/ "solution" \in line.kw
                  THEN /\ after.section = "recommended_fix"
                       /\ after.recommended_fix = reset
                       /\ after.root_cause = before.root_cause
                  ELSE IF "confidence" \in line.kw THEN same
                  ELSE IF line.body = << >> \/ before.section = "none" THEN same
                  ELSE /\ after.section = before.section
                       /\ after[before.section] = before[before.section] \o <<" ">> \o line.body
                       /\ \A f \in {"root_cause", "recommended_fix"} \ {before.section} :
                             after[f] = before[f]

\* lines were appended to both sections, a confidence line in between left
\* them alone, and a line before the first header was dropped
ScanSectionsWitness ==
    /\ Generated
    /\ Len(args[1].content) = 5
    /\ \A i \in 1..5 : args[1].content[i].c = "line"
    /\ TextLines = TextSamples[5]
    /\ ScanAfter(4).section = "root_cause"
    /\ ScanAfter(4).root_cause = RootCauseLine.after1 \o <<" ">> \o ProseLine.body
                                     \o <<" ">> \o LongLine.body
    /\ ScanAfter(5).section = "recommended_fix"
    /\ ret[1].ok

----------------------------------------------------------------------------
\* The user prompt of RAGEngine.generate_resolution.  A prompt is a sequence
\* of segments [part, n]: n characters of the named part of the text, no
\* segment empty.

max_context_length == 4000

PromptMarker == [part |-> "...[truncated]", n |-> 14]

NonEmptySegments(segments) == SelectSeq(segments, LAMBDA s : s.n > 0)

RECURSIVE PromptLen(_)
PromptLen(prompt) ==
    IF prompt = << >> THEN 0 ELSE prompt[1].n + PromptLen(Tail(prompt))

\* prompt[:k]
RECURSIVE PromptPrefix(_, _)
PromptPrefix(prompt, k) ==
    IF prompt = << >> \/ k <= 0 THEN << >>
    ELSE IF prompt[1].n <= k
         THEN <<prompt[1]>> \o PromptPrefix(Tail(prompt), k - prompt[1].n)
         ELSE <<[prompt[1] EXCEPT !.n = k]>>

\* the lines before error_message with their line ends are 213 characters;
\* error_message and the empty line after it; when there are similar logs,
\* their header (27 characters with its line end), one line for each of the
\* first five (43 characters before the message, the message, a line end)
\* and an empty line; when there is a context (here its length, 0 for
\* none), "ADDITIONAL CONTEXT: ", the context and an empty line; the closing
\* instructions, 279 characters
_build_prompt(error_message, logs, context) ==
    LET shown == SubSeq(logs, 1, Min(Len(logs), 5))
    IN  NonEmptySegments(
          <<[part |-> "instructions", n |-> 213],
            [part |-> "error_message", n |-> error_message],
            [part |-> "line end", n |-> 2]>>
          \o (IF shown = << >> THEN << >>
              ELSE <<[part |-> "SIMILAR HISTORICAL ERRORS:", n |-> 27]>>
                   \o [i \in 1..Len(shown) |->
                          [part |-> "similar log", n |-> 43 + shown[i] + 1]]
                   \o <<[part |-> "line end", n |-> 1]>>)
          \o (IF context = 0 THEN << >>
              ELSE <<[part |-> "ADDITIONAL CONTEXT: ", n |-> 20],
                     [part |-> "context", n |-> context],
                     [part |-> "line end", n |-> 2]>>)
          \o <<[part |-> "Please provide:", n |-> 279]>>)

\* variant that also cuts a prompt of exactly max characters
SentPrompt_at_least(prompt, max) ==
    IF PromptLen(prompt) >= max
    THEN PromptPrefix(prompt, max) \o <<PromptMarker>>
    ELSE prompt

\* the prompt that is sent, given the assembled one
SentPrompt(prompt, max) ==
    IF PromptLen(prompt) > max
    THEN PromptPrefix(prompt, max) \o <<PromptMarker>>
    ELSE prompt

EndsWithMarker(prompt) ==
    prompt # << >> /\ prompt[Len(prompt)] = PromptMarker

\* lengths of messages and contexts (0: no context), lists of the message
\* lengths of similar logs, and configured maximum lengths
MessageLengths == {0, 1, 6, 7, 8, 3506, 3507, 5000}

ContextLengths == {0, 3}

SimilarLists == <<<< >>, <<1>>, <<1, 1>>, <<600, 600, 600, 600, 600, 600>>>>

MaxLengths == {max_context_length, 500}

InitPrompt ==
    /\ IdlePipeline
    /\ NoTasks
    /\ fn = "generate_resolution.prompt"
    /\ ret = << >>
    /\ \E m \in MessageLengths, c \in ContextLengths,
          i \in 1..Len(SimilarLists), max \in MaxLengths :
          args = [error_message |-> m, similar_logs |-> SimilarLists[i],
                  context |-> c, max_context_length |-> max]

ApplyPrompt ==
    /\ fn = "generate_resolution.prompt"
    /\ ret = << >>
    /\ ret' = <<SentPrompt(_build_prompt(args.error_message, args.similar_logs,
                                         args.context),
                           args.max_context_length)>>
    /\ UNCHANGED <<dbVars, reqVars, fn, args, procVars>>

SpecPrompt == InitPrompt /\ [][ApplyPrompt]_vars

Assembled == _build_prompt(args.error_message, args.similar_logs, args.context)

\* C25: the prompt sent to the completion has at most max_context_length
\* characters plus the length of the marker "...[truncated]"; it ends with
\* the marker exactly when the assembled prompt was longer than
\* max_context_length, and is the assembled prompt otherwise.
PromptWithinLimit ==
    (fn = "generate_resolution.prompt" /\ ret # << >>) =>
        /\ PromptLen(ret[1]) <= args.max_context_length + PromptMarker.n
        /\ EndsWithMarker(ret[1]) <=> PromptLen(Assembled) > args.max_context_length
        /\ PromptLen(Assembled) <= args.max_context_length => ret[1] = Assembled

\* a prompt one character longer than the maximum lost its last character
\* and got the marker
PromptCutWitness ==
    /\ fn = "generate_resolution.prompt"
    /\ ret # << >>
    /\ args.max_context_length = max_context_length
    /\ args.similar_logs = << >>
    /\ args.context = 0
    /\ args.error_message = 3507
    /\ ret[1] = <<[part |-> "instructions", n |-> 213],
                  [part |-> "error_message", n |-> 3507],
                  [part |-> "line end", n |-> 2],
                  [part |-> "Please provide:", n |-> 278],
                  PromptMarker>>

----------------------------------------------------------------------------
CountIn(x, seq) == Cardinality({i \in 1..Len(seq) : seq[i] = x})

\* the calls of the request on record: one retrieval and one completion at
\* most, and a request whose completion call did not return a content has
\* failed
CallsAtMostOnce ==
    /\ CountIn("completion", trace) <= 1
    /\ CountIn("query_similar", trace) <= 1
    /\ CountIn("generate_embedding", trace) <= 1
    /\ (llm_response # None /\ Val(llm_response).kind # "content") =>
          /\ outcome.status = "raised"
          /\ pc \in {"respond", "done"}

\* C27: a resolution request calls the completion at most once and
\* retrieves at most once; when the completion arrives, whether it returned
\* or raised, the request makes no further retrieval or completion call: a
\* request whose completion call failed fails after that one call.
CompletionAtMostOnce ==
    /\ []CallsAtMostOnce
    /\ [][(pc = "awaiting" /\ llm_response' # llm_response) =>
             /\ pc' \notin {"retrieve", "awaiting"}
             /\ \A x \in {"completion", "query_similar", "generate_embedding"} :
                   CountIn(x, trace') = CountIn(x, trace)]_vars

\* the completion call of a request with retrieved matches raised: the
\* request failed with one retrieval and one completion call on record
CompletionFailedOnceWitness ==
    /\ ResolverCall
    /\ llm_response # None
    /\ Val(llm_response).kind = "raise"
    /\ outcome.status = "raised"
    /\ similar_logs # << >>
    /\ CountIn("completion", trace) = 1
    /\ CountIn("query_similar", trace) = 1
    /\ trace[Len(trace)] = "completion"

----------------------------------------------------------------------------
(* Concurrent resolve_log_entry calls.  Every call has a session of its     *)
(* own; the calls share the event loop, so that a call runs from its start  *)
(* to the await of the completion, and from the arrival of the completion   *)
(* to its return, without another call running in between.                  *)

MaxRequests == 3    \* concurrent resolve_log_entry calls

\* the completions the concurrent calls receive
ConcurrentCompletions == SubSeq(PipelineCompletions, 1, 3)

\* two logs were ingested
TwoLogsStored ==
    /\ logEntries = {[id |-> i, error_message |-> <<"w">>,
                      normalized_text |-> Some(normalize_text(<<"w">>)),
                      embedding_id |-> Some("log_" \o Str(i))] : i \in 1..2}
    /\ vectorIndex = {[id |-> "log_" \o Str(i), log_id |-> Some(Str(i))] : i \in 1..2}

InitConcurrent ==
    /\ TwoLogsStored
    /\ history = << >>
    /\ nDirect = 0
    /\ pc = "idle"
    /\ call = NoCall
    /\ retrieval = NoRetrieval
    /\ similar_logs = << >>
    /\ llm_response = None
    /\ resolution = None
    /\ trace = << >>
    /\ outcome = NoOutcome
    /\ response = NoResponse
    /\ NoPure
    /\ NoTasks

\* resolver.py lines 125-143: a call starts, retrieves and formats the
\* similar logs and awaits the completion, or raises if retrieval failed
StartLogEntry ==
    /\ Len(tasks) < MaxRequests
    /\ \E e \in logEntries :
         \E r \in retrieve_similar_logs(vectorIndex, QueryTextOf(e), 1 + 1) :
           tasks' = Append(tasks,
              [log_id |-> e.id,
               similar |-> IF r.status = "returned"
                           THEN Take(format_retrieval_results(r.results, Some(e.id)), 1)
                           ELSE << >>,
               at |-> IF r.status = "returned" THEN "awaiting" ELSE "raised",
               completion |-> 0, failure |-> "",
               resolution_id |-> None, result |-> None])
    /\ UNCHANGED <<dbVars, reqVars, pureVars, globals, built>>

\* resolver.py lines 139-186: the completion of call t arrives; the call
\* raises if generation failed, and otherwise adds, commits and refreshes
\* its ResolutionHistory row in its own session (failure names the session
\* call that raises, or none) and returns
ResumeLogEntry(t) ==
    /\ tasks[t].at = "awaiting"
    /\ \E i \in 1..Len(ConcurrentCompletions) :
         LET gen == generate_resolution(ConcurrentCompletions[i])
         IN  IF ~gen.ok
             THEN /\ tasks' = [tasks EXCEPT ![t].at = "raised", ![t].completion = i]
                  /\ UNCHANGED history
             ELSE \E failure \in {"none", "add", "commit", "refresh"} :
                    LET c   == Call("direct", "log_entry", tasks[t].log_id, None, 1, TRUE)
                        row == [id |-> Len(history) + 1,
                                log_entry_id |-> tasks[t].log_id,
                                root_cause |-> gen.val.root_cause,
                                recommended_fix |->
                                    _normalize_recommended_fix(gen.val.recommended_fix),
                                confidence_score |-> gen.val.confidence,
                                similar_log_ids |-> SimilarIds(tasks[t].similar),
                                top_k |-> 1]
                        resolution_id == resolution_id_after(failure, row.id)
                    IN  /\ history' = IF failure \in {"none", "refresh"}
                                      THEN Append(history, row) ELSE history
                        /\ tasks' = [tasks EXCEPT
                              ![t].at = "returned",
                              ![t].completion = i,
                              ![t].failure = failure,
                              ![t].resolution_id = resolution_id,
                              ![t].result = Some(ResultOf(c, gen.val, tasks[t].similar,
                                                          resolution_id))]
    /\ UNCHANGED <<logEntries, vectorIndex, nDirect, reqVars, pureVars, globals, built>>

NextConcurrent ==
    \/ StartLogEntry
    \/ \E t \in 1..MaxRequests : t \in DOMAIN tasks /\ ResumeLogEntry(t)

SpecConcurrent == InitConcurrent /\ [][NextConcurrent]_vars

\* the calls that returned a resolution_id that is not None
WithResolutionId ==
    {t \in DOMAIN tasks : tasks[t].at = "returned" /\ tasks[t].resolution_id # None}

\* as many rows as returned ids, the ids distinct, and every returned
\* result that of the call's own completion and similar logs
RowsMatchReturnedIds ==
    /\ Len(history) = Cardinality(WithResolutionId)
    /\ \A t, u \in WithResolutionId :
          t # u => Val(tasks[t].resolution_id) # Val(tasks[u].resolution_id)
    /\ \A t \in WithResolutionId :
          /\ Val(tasks[t].resolution_id) \in 1..Len(history)
          /\ history[Val(tasks[t].resolution_id)].log_entry_id = tasks[t].log_id
    /\ \A t \in DOMAIN tasks :
          tasks[t].at = "returned" =>
             LET gen == generate_resolution(ConcurrentCompletions[tasks[t].completion])
                 res == Val(tasks[t].result)
             IN  /\ res.log_entry_id = tasks[t].log_id
                 /\ res.root_cause = gen.val.root_cause
                 /\ res.confidence = gen.val.confidence
                 /\ res.similar_logs = tasks[t].similar

\* C28: for every interleaving of concurrent resolve_log_entry calls, each
\* with its own session and possibly for the same log id, the number of
\* ResolutionHistory rows added is the number of calls that returned a
\* resolution_id that is not None, these ids are pairwise distinct, and a
\* step of one call, a persistence failure included, changes neither the
\* result of another call nor a row stored before.
ConcurrentCallsIndependent ==
    /\ []RowsMatchReturnedIds
    /\ [][/\ SubSeq(history', 1, Len(history)) = history
          /\ \A t \in DOMAIN tasks :
                tasks[t].at # "awaiting" => tasks'[t] = tasks[t]]_vars

----------------------------------------------------------------------------
(* extract_error_message applied to a text *)

\* values of max_length: the default, and one shorter than the sample texts
MaxLengthValues == {500, 4}

InitExtract ==
    /\ IdlePipeline
    /\ NoTasks
    /\ fn = "extract_error_message"
    /\ ret = << >>
    /\ \E text \in TextsUpTo(MaxTextLen), max_length \in MaxLengthValues :
          args = <<text, max_length>>

ApplyExtract ==
    /\ fn = "extract_error_message"
    /\ ret = << >>
    /\ ret' = <<extract_error_message(args[1], args[2])>>
    /\ UNCHANGED <<dbVars, reqVars, fn, args, procVars>>

SpecExtract == InitExtract /\ [][ApplyExtract]_vars

\* the text without its date, bracket and all-caps prefixes has no line
\* that is not empty
NoLineLeft(text) ==
    Strip(SubPrefix(SubPrefix(SubPrefix(text, "date", TRUE), "bracket", TRUE),
                    "upper", TRUE)) = << >>

\* C29: extract_error_message returns no empty message for an input that is
\* not empty: when the removal of the date, bracket and all-caps prefixes
\* leaves no line that is not empty, it returns the raw input cut to
\* max_length; the result has at most max_length characters plus the three
\* of the ellipsis.
MessageNeverEmpty ==
    (fn = "extract_error_message" /\ ret # << >>) =>
        /\ args[1] # << >> => ret[1] # << >>
        /\ NoLineLeft(args[1]) => ret[1] = Truncate(args[1], args[2])
        /\ TextLen(ret[1]) <= args[2] + 3

----------------------------------------------------------------------------
\* C30: ingestion is all or nothing across the two stores: a
\* store_log_with_embedding call that raises DatabaseError (the first
\* commit, the embedding generation, the addition to the index or the
\* second commit failed) leaves no LogEntry row and no embedding of its own
\* behind, so that both stores are as they were before the call.
IngestionAllOrNothing ==
    [][\A error_message \in IngestMessages :
          \A failure \in {"commit", "generate_embedding", "add_embedding", "commit2"} :
             store_log_with_embedding(error_message, failure) =>
                /\ logEntries' = logEntries
                /\ vectorIndex' = vectorIndex]_vars

====
